---- MODULE Spec2Model ----
(***************************************************************************)
(* A model of the JurisFlo backend (Convex functions in src/convex):       *)
(* company.ts (key normalisation, sanitising, classification and           *)
(* aggregation of company data), document.ts (the document table and its   *)
(* mutations) and parser.ts (the extraction run and auto-fill).            *)
(*                                                                         *)
(* JavaScript strings are TLA+ strings; a character is a string of length  *)
(* one.  A JavaScript value of type `any` is a tagged record (JsString,    *)
(* JsNumber, JsNull, JsUndefined) so that values of different types can be *)
(* compared.  The module is kept in ASCII: EAcute stands for U+00E9 and    *)
(* CombiningAcute for U+0301.                                              *)
(***************************************************************************)
EXTENDS Naturals, Sequences, FiniteSets, TLC

VARIABLES
  probe,      \* the pure function under test: its name, arguments and result
  company,    \* the company table, in creation order
  document,   \* the document table, in creation order
  tool,       \* the populateCompanyDataFromDocuments tool call in progress
  run,        \* the scheduled extractFieldsFromDocument runs
  storage,    \* the stored files, by storage id
  thread,     \* the agent threads, by thread id
  last        \* what the last query or tool call returned, when the current
              \* state is the one it returned in

vars == <<probe, company, document, tool, run, storage, thread, last>>

-----------------------------------------------------------------------------
(* Bounds of the model. *)

MaxLabelWords == 2
MaxDescWords == 1
MaxEntries == 2
MaxCompanies == 1
MaxCompanyEntries == 2
MaxDocs == 2
MaxPopulateDocs == 1
MaxData == 2
MaxUpdate == 1
MaxFields == 2
MaxFiles == 1
MaxUploads == 2
MaxExtracted == 1
MaxLifecycleFiles == 2
MaxLifecycleDocs == 1
MaxLifecycleRuns == 2
MaxDeletions == 1
MaxChatRuns == 2
MaxOwnerRuns == 2
MaxSearchNames == 3
MaxSearchCompanies == 11
MaxSelected == 3
MaxSubmits == 2

-----------------------------------------------------------------------------
(* JavaScript values and strings. *)

JsString(s) == [t |-> "string", v |-> s]
JsNumber(n) == [t |-> "number", v |-> n]
JsNull == [t |-> "null", v |-> ""]
JsUndefined == [t |-> "undefined", v |-> ""]

\* The value null of a `string | null` result: no string the code builds
\* contains "<".
null == "<null>"

EAcute == "@"
CombiningAcute == "~"

Chr(s, i) == SubSeq(s, i, i)

UpperCase == "ABCDEFGHIJKLMNOPQRSTUVWXYZ"
LowerCase == "abcdefghijklmnopqrstuvwxyz"
Digits == "0123456789"

\* String.prototype.toLowerCase on one character.
LowerCharMap ==
  [i \in 1..Len(UpperCase) |-> Chr(LowerCase, i)]

UpperChars == { Chr(UpperCase, i) : i \in 1..Len(UpperCase) }
LowerAlnumChars ==
  { Chr(LowerCase, i) : i \in 1..Len(LowerCase) }
    \cup { Chr(Digits, i) : i \in 1..Len(Digits) }

LowerChar(c) ==
  IF c \in UpperChars
    THEN LowerCharMap[CHOOSE i \in 1..Len(UpperCase) : Chr(UpperCase, i) = c]
    ELSE c

RECURSIVE toLowerCase(_)
toLowerCase(s) ==
  IF s = "" THEN "" ELSE LowerChar(Chr(s, 1)) \o toLowerCase(Tail(s))

\* \s, for the characters of the model.
IsSpace(c) == c = " " \/ c = "\n"

RECURSIVE trimStart(_)
trimStart(s) ==
  IF s # "" /\ IsSpace(Chr(s, 1)) THEN trimStart(Tail(s)) ELSE s

RECURSIVE trimEnd(_)
trimEnd(s) ==
  IF s # "" /\ IsSpace(Chr(s, Len(s)))
    THEN trimEnd(SubSeq(s, 1, Len(s) - 1))
    ELSE s

trim(s) == trimEnd(trimStart(s))

includes(s, k) ==
  \E i \in 1..(Len(s) + 1) :
    i + Len(k) - 1 <= Len(s) /\ SubSeq(s, i, i + Len(k) - 1) = k

\* [a-z0-9]
IsLowerAlnum(c) == c \in LowerAlnumChars

\* .replace(/[^a-z0-9]+/g, '_'): every maximal run of other characters
\* becomes one underscore.  inRun: the previous character was replaced.
RECURSIVE replaceNonAlnumRuns(_, _)
replaceNonAlnumRuns(s, inRun) ==
  IF s = "" THEN ""
  ELSE IF IsLowerAlnum(Chr(s, 1))
    THEN Chr(s, 1) \o replaceNonAlnumRuns(Tail(s), FALSE)
    ELSE (IF inRun THEN "" ELSE "_") \o replaceNonAlnumRuns(Tail(s), TRUE)

RECURSIVE stripLeadingUnderscores(_)
stripLeadingUnderscores(s) ==
  IF s # "" /\ Chr(s, 1) = "_" THEN stripLeadingUnderscores(Tail(s)) ELSE s

RECURSIVE stripTrailingUnderscores(_)
stripTrailingUnderscores(s) ==
  IF s # "" /\ Chr(s, Len(s)) = "_"
    THEN stripTrailingUnderscores(SubSeq(s, 1, Len(s) - 1))
    ELSE s

\* .replace(/^_+|_+$/g, '')
stripUnderscores(s) == stripTrailingUnderscores(stripLeadingUnderscores(s))

-----------------------------------------------------------------------------
(* company.ts: canonical keys and sanitising. *)

normalizeCompanyDataKey_TrimLowerOnly(input) ==
  IF input = "" \/ input = null THEN null
  ELSE LET normalized == toLowerCase(trim(input))
       IN  IF normalized = "" THEN null ELSE normalized

normalizeCompanyDataKey(input) ==
  IF input = "" \/ input = null THEN null
  ELSE LET normalized ==
             stripUnderscores(
               replaceNonAlnumRuns(toLowerCase(trim(input)), FALSE))
       IN  IF normalized = "" THEN null ELSE normalized

\* A JavaScript object whose property order is not observed is a function
\* from its keys; one that is iterated (Object.entries) is the sequence of
\* its <<key, value>> entries.
EmptyObject == <<>>

HasKey(obj, k) == k \in DOMAIN obj

SetKey(obj, k, v) == (k :> v) @@ obj

cleanedValueOf(value) ==
  IF value.t = "string" THEN JsString(trim(value.v)) ELSE value

\* One iteration of the loop of sanitizeCompanyData.
sanitizeEntry_FirstWins(sanitized, rawKey, value) ==
  LET canonicalKey == normalizeCompanyDataKey(rawKey)
      cleanedValue == cleanedValueOf(value)
  IN  IF canonicalKey = null THEN sanitized
      ELSE IF value = JsUndefined \/ value = JsNull THEN sanitized
      ELSE IF cleanedValue.t = "string" /\ cleanedValue.v = "" THEN sanitized
      ELSE IF HasKey(sanitized, canonicalKey) THEN sanitized
      ELSE SetKey(sanitized, canonicalKey, cleanedValue)

sanitizeEntry(sanitized, rawKey, value) ==
  LET canonicalKey == normalizeCompanyDataKey(rawKey)
      cleanedValue == cleanedValueOf(value)
  IN  IF canonicalKey = null THEN sanitized
      ELSE IF value = JsUndefined \/ value = JsNull THEN sanitized
      ELSE IF cleanedValue.t = "string" /\ cleanedValue.v = "" THEN sanitized
      ELSE SetKey(sanitized, canonicalKey, cleanedValue)

RECURSIVE sanitizeCompanyData(_)
sanitizeCompanyData(entries) ==
  IF entries = <<>> THEN EmptyObject
  ELSE LET n == Len(entries)
       IN  sanitizeEntry(sanitizeCompanyData(SubSeq(entries, 1, n - 1)),
                         entries[n][1], entries[n][2])

-----------------------------------------------------------------------------
(* company.ts: isCompanyLevelField. *)

companyKeywords ==
  << "company name", "company address", "company registration",
     "registration number", "ein", "tax id", "tax identification",
     "total shares", "total number of shares", "authorized shares",
     "authorized capital", "state of incorporation", "incorporation state",
     "company type", "entity type", "legal entity", "corporate address",
     "registered address", "principal address", "business address",
     "company phone", "company email", "fiscal year", "jurisdiction" >>

documentKeywords ==
  << "contract date", "agreement date", "signing date", "effective date",
     "document date", "execution date", "party name", "signatory", "signer",
     "witness", "document title", "agreement title", "contract title",
     "term", "clause", "section", "paragraph", "exhibit", "schedule",
     "annex" >>

combinedText(label, description) ==
  trim(toLowerCase(label)) \o " " \o trim(toLowerCase(description))

MatchesAny(text, keywords) ==
  \E i \in 1..Len(keywords) : includes(text, keywords[i])

isCompanyLevelField_CompanyFirst(label, description) ==
  LET normalizedLabel == trim(toLowerCase(label))
      combined == combinedText(label, description)
  IN  IF MatchesAny(combined, companyKeywords) THEN TRUE
      ELSE IF MatchesAny(combined, documentKeywords) THEN FALSE
      ELSE IF includes(normalizedLabel, "company")
              /\ ~includes(normalizedLabel, "party") THEN TRUE
      ELSE IF (includes(normalizedLabel, "share")
                \/ includes(normalizedLabel, "capital"))
              /\ ~includes(normalizedLabel, "agreement")
              /\ ~includes(normalizedLabel, "contract") THEN TRUE
      ELSE FALSE

isCompanyLevelField(label, description) ==
  LET normalizedLabel == trim(toLowerCase(label))
      combined == combinedText(label, description)
  IN  IF MatchesAny(combined, documentKeywords) THEN FALSE
      ELSE IF MatchesAny(combined, companyKeywords) THEN TRUE
      ELSE IF includes(normalizedLabel, "company")
              /\ ~includes(normalizedLabel, "party") THEN TRUE
      ELSE IF (includes(normalizedLabel, "share")
                \/ includes(normalizedLabel, "capital"))
              /\ ~includes(normalizedLabel, "agreement")
              /\ ~includes(normalizedLabel, "contract") THEN TRUE
      ELSE FALSE

-----------------------------------------------------------------------------
(* company.ts: internalAggregateCompanyDataFromDocuments. *)

\* The entries of a stored object.  The keys of a stored object are read in
\* some order; every use below is on objects whose keys are already
\* canonical, where the order has no effect.
ObjectEntries(obj) ==
  LET keys == DOMAIN obj
      n == Cardinality(keys)
      order == CHOOSE f \in [1..n -> keys] :
                 \A i, j \in 1..n : i # j => f[i] # f[j]
  IN  [i \in 1..n |-> <<order[i], obj[order[i]]>>]

\* item.key: the property is absent from the fields the schema stores.
FieldKey(item) == IF "key" \in DOMAIN item THEN item.key ELSE JsUndefined

KeyString(jsValue) == IF jsValue.t = "string" THEN jsValue.v ELSE null

rawValueOf(item) ==
  IF item.value.t = "string" THEN JsString(trim(item.value.v)) ELSE item.value

\* The body of the loop over a document's items.
aggregateItem_NoTrim(aggregatedData, item) ==
  LET rawValue == item.value
  IN  IF rawValue = JsUndefined \/ rawValue = JsNull THEN aggregatedData
      ELSE IF rawValue.t = "string" /\ trim(rawValue.v) = "" THEN aggregatedData
      ELSE IF isCompanyLevelField(item.label, item.description)
        THEN LET preferredKey == normalizeCompanyDataKey(KeyString(FieldKey(item)))
                 fallbackKey == normalizeCompanyDataKey(item.label)
                 canonicalKey == IF preferredKey # null THEN preferredKey
                                 ELSE fallbackKey
             IN  IF canonicalKey = null THEN aggregatedData
                 ELSE SetKey(aggregatedData, canonicalKey, rawValue)
        ELSE aggregatedData

aggregateItem_FirstWins(aggregatedData, item) ==
  LET rawValue == rawValueOf(item)
  IN  IF rawValue = JsUndefined \/ rawValue = JsNull THEN aggregatedData
      ELSE IF rawValue.t = "string" /\ rawValue.v = "" THEN aggregatedData
      ELSE IF isCompanyLevelField(item.label, item.description)
        THEN LET fallbackKey == normalizeCompanyDataKey(item.label)
             IN  IF fallbackKey = null \/ HasKey(aggregatedData, fallbackKey)
                   THEN aggregatedData
                   ELSE SetKey(aggregatedData, fallbackKey, rawValue)
        ELSE aggregatedData

aggregateItem(aggregatedData, item) ==
  LET rawValue == rawValueOf(item)
  IN  IF rawValue = JsUndefined \/ rawValue = JsNull THEN aggregatedData
      ELSE IF rawValue.t = "string" /\ rawValue.v = "" THEN aggregatedData
      ELSE IF isCompanyLevelField(item.label, item.description)
        THEN LET preferredKey == normalizeCompanyDataKey(KeyString(FieldKey(item)))
                 fallbackKey == normalizeCompanyDataKey(item.label)
                 canonicalKey == IF preferredKey # null THEN preferredKey
                                 ELSE fallbackKey
             IN  IF canonicalKey = null THEN aggregatedData
                 ELSE SetKey(aggregatedData, canonicalKey, rawValue)
        ELSE aggregatedData

RECURSIVE aggregateItems(_, _)
aggregateItems(aggregatedData, items) ==
  IF items = <<>> THEN aggregatedData
  ELSE aggregateItems(aggregateItem(aggregatedData, Head(items)), Tail(items))

\* ctx.db.get(documentId) finds the document: a deleted row keeps its place
\* in the table so that ids stay what they were.
Exists(documentId) ==
  documentId \in DOMAIN document /\ ~document[documentId].deleted

\* The loop over the documents of the company, which the by_company index
\* yields in creation order.
RECURSIVE aggregateDocuments(_, _, _)
aggregateDocuments(aggregatedData, documents, companyId) ==
  IF documents = <<>> THEN aggregatedData
  ELSE LET doc == Head(documents)
           next == IF doc.companyId = companyId /\ ~doc.deleted /\ doc.hasData
                     THEN aggregateItems(aggregatedData, doc.data)
                     ELSE aggregatedData
       IN  aggregateDocuments(next, Tail(documents), companyId)

internalAggregateCompanyDataFromDocuments(companyId) ==
  aggregateDocuments(
    sanitizeCompanyData(ObjectEntries(company[companyId].data)),
    document, companyId)

-----------------------------------------------------------------------------
(* document.ts: the label-keyed merge of updateDocumentData. *)

LastIndexOfLabel(data, label) ==
  CHOOSE i \in DOMAIN data :
    /\ data[i].label = label
    /\ \A j \in DOMAIN data : data[j].label = label => j <= i

LabelsOf(data) == { data[i].label : i \in DOMAIN data }

\* for (const newItem of args.data) if (!updatedLabels.has(newItem.label)) ...
RECURSIVE pushNewItems(_, _, _)
pushNewItems(mergedData, updatedLabels, data) ==
  IF data = <<>> THEN mergedData
  ELSE LET newItem == Head(data)
       IN  IF newItem.label \in updatedLabels
             THEN pushNewItems(mergedData, updatedLabels, Tail(data))
             ELSE pushNewItems(Append(mergedData, newItem),
                               updatedLabels \cup {newItem.label}, Tail(data))

mergeDocumentData_ReplaceAll(existingData, data) ==
  pushNewItems(<<>>, {}, data)

mergeDocumentData(existingData, data) ==
  LET \* newDataMap.get(label): a Map built from pairs keeps the last one
      newDataMapGet(label) == data[LastIndexOfLabel(data, label)]
      replaced == [i \in DOMAIN existingData |->
                     IF existingData[i].label \in LabelsOf(data)
                       THEN newDataMapGet(existingData[i].label)
                       ELSE existingData[i]]
      updatedLabels == LabelsOf(existingData) \cap LabelsOf(data)
  IN  pushNewItems(replaced, updatedLabels, data)

\* mergedData.every(item => item.value && item.value.trim() !== '')
allFieldsFilled(mergedData) ==
  \A i \in DOMAIN mergedData :
    /\ mergedData[i].value.t = "string"
    /\ mergedData[i].value.v # ""
    /\ trim(mergedData[i].value.v) # ""

statusAfterUpdate_AnyStatus(status, mergedData) ==
  IF allFieldsFilled(mergedData) THEN "completed"
  ELSE IF status = "completed" THEN "review"
  ELSE status

statusAfterUpdate_NeverBack(status, mergedData) ==
  IF status = "review" /\ allFieldsFilled(mergedData) THEN "completed"
  ELSE status

statusAfterUpdate(status, mergedData) ==
  IF status = "review" /\ allFieldsFilled(mergedData) THEN "completed"
  ELSE IF status = "completed" /\ ~allFieldsFilled(mergedData) THEN "review"
  ELSE status

-----------------------------------------------------------------------------
(* parser.ts: the helpers of extractFieldsFromDocument. *)

\* rawText.replace(/^\s*$\n/gm, ''): a line of white space only is removed
\* with the newline that ends it.  atLineStart: s starts a line.
RECURSIVE restOfLine(_)
restOfLine(s) ==
  IF s = "" \/ Chr(s, 1) = "\n" THEN "" ELSE Chr(s, 1) \o restOfLine(Tail(s))

RECURSIVE removeEmptyLines(_)
removeEmptyLines(s) ==
  IF s = "" THEN ""
  ELSE LET line == restOfLine(s)
           ended == Len(line) < Len(s)      \* a newline follows the line
           after == IF ended THEN SubSeq(s, Len(line) + 2, Len(s)) ELSE ""
       IN  IF ended /\ trim(line) = ""
             THEN removeEmptyLines(after)
             ELSE line \o (IF ended THEN "\n" ELSE "") \o removeEmptyLines(after)

\* String.prototype.indexOf counted from 1; 0 when k does not occur.
indexOf(s, k) ==
  IF includes(s, k)
    THEN CHOOSE i \in 1..(Len(s) + 1) :
           /\ i + Len(k) - 1 <= Len(s) /\ SubSeq(s, i, i + Len(k) - 1) = k
           /\ \A j \in 1..(i - 1) : SubSeq(s, j, j + Len(k) - 1) # k
    ELSE 0

\* .replace(/\s+/g, '_')
RECURSIVE replaceSpaceRuns(_, _)
replaceSpaceRuns(s, inRun) ==
  IF s = "" THEN ""
  ELSE IF IsSpace(Chr(s, 1))
    THEN (IF inRun THEN "" ELSE "_") \o replaceSpaceRuns(Tail(s), TRUE)
    ELSE Chr(s, 1) \o replaceSpaceRuns(Tail(s), FALSE)

\* .replace(/_/g, ' ')
RECURSIVE replaceUnderscores(_)
replaceUnderscores(s) ==
  IF s = "" THEN ""
  ELSE (IF Chr(s, 1) = "_" THEN " " ELSE Chr(s, 1)) \o replaceUnderscores(Tail(s))

\* The wrappers of buildLabelTokenCandidates, in their order.
wrappers(value) ==
  << "[" \o value \o "]", "[[" \o value \o "]]", "{{" \o value \o "}}",
     "{" \o value \o "}", value \o ":_____", value \o " _____",
     "_____ " \o value >>

RECURSIVE Concat(_)
Concat(seqs) == IF seqs = <<>> THEN <<>> ELSE Head(seqs) \o Concat(Tail(seqs))

\* The Set of candidates keeps insertion order and drops repeats.
RECURSIVE Distinct(_, _)
Distinct(seen, seq) ==
  IF seq = <<>> THEN <<>>
  ELSE IF Head(seq) \in seen THEN Distinct(seen, Tail(seq))
  ELSE <<Head(seq)>> \o Distinct(seen \cup {Head(seq)}, Tail(seq))

\* buildLabelTokenCandidates.  Every wrapped candidate is pushed four times,
\* as it is, upper-cased, lower-cased and title-cased, each lower-cased at the
\* end: for the characters of the model the four are the same token.
buildLabelTokenCandidates(label, key) ==
  LET normalizedLabel == trim(label)
      fromLabel == IF normalizedLabel # ""
                     THEN <<normalizedLabel, replaceSpaceRuns(normalizedLabel, FALSE)>>
                     ELSE <<>>
      fromKey == IF key.t = "string" /\ key.v # ""
                   THEN <<trim(key.v), replaceUnderscores(key.v)>>
                   ELSE <<>>
      candidates == Distinct({}, fromLabel \o fromKey)
      tokensOf(candidate) ==
        LET trimmed == trim(candidate)
            wrapped == wrappers(trimmed)
        IN  IF trimmed = "" THEN <<>>
            ELSE Concat([w \in 1..Len(wrapped) |->
                           [c \in 1..4 |-> toLowerCase(wrapped[w])]])
  IN  Concat([c \in 1..Len(candidates) |-> tokensOf(candidates[c])])

\* findPlaceholderContextByLabel: the placeholderToken of the first token
\* that occurs in the text, null when none does.
findPlaceholderContextByLabel(rawText, normalizedText, label, key) ==
  LET tokens == buildLabelTokenCandidates(label, key)
      found == { i \in 1..Len(tokens) : includes(normalizedText, tokens[i]) }
  IN  IF found = {} THEN null
      ELSE LET token == tokens[CHOOSE i \in found : \A j \in found : i <= j]
               index == indexOf(normalizedText, token)
           IN  SubSeq(rawText, index, index + Len(token) - 1)

\* extractContextFromRawText returns a non-empty context exactly when the
\* trimmed snippet is not empty and occurs in the lower-cased text.
extractContextFromRawText(normalizedText, snippet) ==
  trim(snippet) # "" /\ includes(normalizedText, toLowerCase(trim(snippet)))

TrimOptional(value) ==
  IF value.t = "string" THEN JsString(trim(value.v)) ELSE value

enrichField(rawText, field) ==
  LET normalizedText == toLowerCase(rawText)
      normalizedPattern == TrimOptional(field.placeholderPattern)
      hasPattern == normalizedPattern.t = "string" /\ normalizedPattern.v # ""
      derivedContext ==
        hasPattern /\ extractContextFromRawText(normalizedText, normalizedPattern.v)
      placeholderToken ==
        findPlaceholderContextByLabel(rawText, normalizedText, field.label,
                                      JsUndefined)
      placeholderPattern ==
        IF ~derivedContext /\ placeholderToken # null /\ ~hasPattern
             /\ placeholderToken # ""
          THEN JsString(placeholderToken)
          ELSE field.placeholderPattern
  IN  [ field EXCEPT
          !.placeholderPattern = TrimOptional(placeholderPattern),
          !.value = IF field.value.t = "undefined" THEN JsString("")
                    ELSE field.value ]

enrichFieldsWithDocumentContext(rawText, fields) ==
  [i \in DOMAIN fields |-> enrichField(rawText, fields[i])]

\* .normalize('NFKD') on the characters of the model.
RECURSIVE normalizeNFKD(_)
normalizeNFKD(s) ==
  IF s = "" THEN ""
  ELSE (IF Chr(s, 1) = EAcute THEN "e" \o CombiningAcute ELSE Chr(s, 1))
         \o normalizeNFKD(Tail(s))

\* .replace(/[\u0300-\u036f]/g, '')
RECURSIVE stripCombiningMarks(_)
stripCombiningMarks(s) ==
  IF s = "" THEN ""
  ELSE (IF Chr(s, 1) = CombiningAcute THEN "" ELSE Chr(s, 1))
         \o stripCombiningMarks(Tail(s))

normalizeIdentifier(value) ==
  stripUnderscores(
    replaceNonAlnumRuns(
      stripCombiningMarks(normalizeNFKD(toLowerCase(value))), FALSE))

annotateDescriptionWithAutoFilled(description) ==
  IF description = "" THEN "Auto-filled from company data"
  ELSE IF includes(toLowerCase(description), "auto-filled from company data")
    THEN description
  ELSE description \o " (Auto-filled from company data)"

\* The Map normalizedCompanyValues of autoFillFieldsFromCompanyData.
RECURSIVE normalizedCompanyValues(_, _)
normalizedCompanyValues(map, entries) ==
  IF entries = <<>> THEN map
  ELSE LET key == Head(entries)[1]
           rawValue == Head(entries)[2]
       IN  IF rawValue.t # "string" \/ trim(rawValue.v) = ""
                \/ normalizeIdentifier(key) = ""
             THEN normalizedCompanyValues(map, Tail(entries))
             ELSE normalizedCompanyValues(
                    SetKey(map, normalizeIdentifier(key), trim(rawValue.v)),
                    Tail(entries))

autoFillField(field, values) ==
  IF field.value.t = "string" /\ field.value.v # "" /\ trim(field.value.v) # ""
    THEN field
  ELSE LET candidateKeys ==
             << null,      \* the parsed fields carry no key
                normalizeIdentifier(field.label),
                IF field.description # ""
                  THEN normalizeIdentifier(field.description) ELSE null >>
           hits == { c \in 1..3 : /\ candidateKeys[c] # null
                                  /\ candidateKeys[c] # ""
                                  /\ HasKey(values, candidateKeys[c]) }
       IN  IF hits = {} THEN field
           ELSE [ field EXCEPT
                    !.value = JsString(values[candidateKeys[
                                CHOOSE c \in hits : \A d \in hits : c <= d]]),
                    !.description =
                      annotateDescriptionWithAutoFilled(field.description) ]

autoFillFieldsFromCompanyData(fields, companyData) ==
  LET values == normalizedCompanyValues(EmptyObject, ObjectEntries(companyData))
  IN  [i \in DOMAIN fields |-> autoFillField(fields[i], values)]

\* schema.ts updateDocumentDataSchema: an item of data is an object of label,
\* description and an optional value; a field left undefined is not sent.
ValidDocumentData(fields) ==
  \A i \in DOMAIN fields : fields[i].placeholderPattern.t = "undefined"

ToDocumentData(fields) ==
  [i \in DOMAIN fields |->
     [ label |-> fields[i].label, description |-> fields[i].description,
       value |-> fields[i].value ]]

-----------------------------------------------------------------------------
(* The values of the variables a specification does not use. *)

NoProbe == [fn |-> "none", args |-> <<>>, done |-> FALSE, out |-> <<>>]
NoTool ==
  [pc |-> "idle", cid |-> 0, data |-> <<>>, clean |-> TRUE, again |-> FALSE]
NoOp ==
  [op |-> "none", id |-> 0, result |-> <<>>, flag |-> FALSE, before |-> <<>>]

-----------------------------------------------------------------------------
(* SpecSanitize: sanitizeCompanyData applied to the entries of a record. *)

RawKeys == {"Name", "name", " NAME ", "a-b", "a b", "--", "", "1"}

AnyValues ==
  { JsString("Acme"), JsString(" Beta "), JsString("  "), JsString(""),
    JsNull, JsUndefined, JsNumber("7") }

\* The entries of an object: no two have the same key.
EntriesUpTo(pairs, n) ==
  { e \in UNION { [1..m -> pairs] : m \in 0..n } :
      \A i, j \in DOMAIN e : i # j => e[i][1] # e[j][1] }

InitSanitize ==
  /\ probe \in { [fn |-> "sanitizeCompanyData", args |-> e, done |-> FALSE,
                  out |-> EmptyObject] :
                 e \in EntriesUpTo(RawKeys \X AnyValues, MaxEntries) }
  /\ company = <<>>
  /\ document = <<>>
  /\ tool = NoTool
  /\ run = <<>>
  /\ storage = <<>>
  /\ thread = <<>>
  /\ last = NoOp

ApplySanitize ==
  /\ probe.fn = "sanitizeCompanyData"
  /\ ~probe.done
  /\ probe' = [probe EXCEPT !.done = TRUE,
                            !.out = sanitizeCompanyData(probe.args)]
  /\ UNCHANGED <<company, document, tool, run, storage, thread, last>>

SpecSanitize == InitSanitize /\ [][ApplySanitize]_vars

-----------------------------------------------------------------------------
(* SpecClassify: isCompanyLevelField applied to a label and a description. *)

Words ==
  { "Company", "Name", "Party", "Share", "Capital", "Agreement", "Term",
    "Being", "Tax", "ID" }

RECURSIVE JoinWords(_)
JoinWords(ws) ==
  IF ws = <<>> THEN ""
  ELSE IF Len(ws) = 1 THEN ws[1]
  ELSE ws[1] \o " " \o JoinWords(Tail(ws))

TextsUpTo(n) == { JoinWords(ws) : ws \in UNION { [1..m -> Words] : m \in 0..n } }

\* A label may carry trailing white space.
ProbeLabels == { l \o pad : l \in TextsUpTo(MaxLabelWords), pad \in {"", " "} }
ProbeDescriptions == TextsUpTo(MaxDescWords)

InitClassify ==
  /\ probe \in { [fn |-> "isCompanyLevelField", args |-> <<l, d>>,
                  done |-> FALSE, out |-> FALSE] :
                 l \in ProbeLabels, d \in ProbeDescriptions }
  /\ company = <<>>
  /\ document = <<>>
  /\ tool = NoTool
  /\ run = <<>>
  /\ storage = <<>>
  /\ thread = <<>>
  /\ last = NoOp

ApplyClassify ==
  /\ probe.fn = "isCompanyLevelField"
  /\ ~probe.done
  /\ probe' = [probe EXCEPT !.done = TRUE,
                            !.out = isCompanyLevelField(probe.args[1],
                                                        probe.args[2])]
  /\ UNCHANGED <<company, document, tool, run, storage, thread, last>>

SpecClassify == InitClassify /\ [][ApplyClassify]_vars

-----------------------------------------------------------------------------
(* The operations on the company and document tables. *)

Field(label, description, value) ==
  [label |-> label, description |-> description, value |-> value]

\* The fields the callers of updateDocumentData pass: two labels with one
\* canonical key, a document-specific label, a padded value and a missing
\* one.
FieldPool ==
  { Field("Company Name", "", JsString(" Acme ")),
    Field("company-name", "", JsString("Beta")),
    Field("company-name", "", JsUndefined),
    Field("Signing Date", "", JsString("2024")) }

DataArgsUpTo(n) == UNION { [1..m -> FieldPool] : m \in 0..n }

\* The records the callers of createCompany and updateCompany pass: two raw
\* keys with one canonical key, a document-specific key, a padded string and
\* a number.
CompanyEntryPool ==
  { <<"Company Name", JsString(" Old ")>>,
    <<"company-name", JsNumber("7")>>,
    <<"Signing Date", JsString("2020")>> }
CompanyDataArgs == EntriesUpTo(CompanyEntryPool, MaxCompanyEntries)

\* A document the extraction run has left in review: the run found no field.
ReviewedDocument(n) ==
  [ title |-> JsString("Untitled"), uploadedById |-> "user1", companyId |-> 0,
    threadId |-> n, originalFileId |-> n, status |-> "review",
    hasData |-> FALSE, data |-> <<>>, errorMessage |-> JsUndefined,
    generatedFileId |-> 0, deleted |-> FALSE ]

\* schema.ts: the statuses of a document.
Statuses == {"uploaded", "parsing", "review", "completed", "error"}

\* A document in a status; a completed one has its fields, all filled.
DocumentInStatus(n, status) ==
  IF status = "completed"
    THEN [ReviewedDocument(n) EXCEPT
            !.status = status, !.hasData = TRUE,
            !.data = <<Field("Signing Date", "", JsString("2024"))>>]
    ELSE [ReviewedDocument(n) EXCEPT !.status = status]

\* A write by another function while the tool call is between its query and
\* its mutation.
Disturbed(t) == IF t.pc = "aggregated" THEN [t EXCEPT !.clean = FALSE] ELSE t

\* company.ts createCompany: ctx.db.insert('company', {data: sanitized}).
createCompany(entries) ==
  /\ Len(company) < MaxCompanies
  /\ company' = Append(company, [data |-> sanitizeCompanyData(entries)])
  /\ tool' = Disturbed(tool)
  /\ last' = NoOp
  /\ UNCHANGED <<probe, document, run, storage, thread>>

\* agent.ts createCompany tool: internalCreateCompany, then
\* linkCompanyToDocument for the document of the thread.
toolCreateCompany(documentId, entries) ==
  /\ Len(company) < MaxCompanies
  /\ Exists(documentId)
  /\ company' = Append(company, [data |-> sanitizeCompanyData(entries)])
  /\ document' = [document EXCEPT ![documentId].companyId = Len(company) + 1]
  /\ tool' = Disturbed(tool)
  /\ last' = NoOp
  /\ UNCHANGED <<probe, run, storage, thread>>

\* company.ts updateCompany: ctx.db.patch(id, {data: sanitized}).
updateCompany(id, entries) ==
  /\ id \in DOMAIN company
  /\ company' = [company EXCEPT ![id].data = sanitizeCompanyData(entries)]
  /\ tool' = Disturbed(tool)
  /\ last' = NoOp
  /\ UNCHANGED <<probe, document, run, storage, thread>>

\* document.ts linkCompanyToDocument.
linkCompanyToDocument(documentId, companyId) ==
  /\ Exists(documentId)
  /\ companyId \in DOMAIN company
  /\ document[documentId].companyId # companyId
  /\ document' = [document EXCEPT ![documentId].companyId = companyId]
  /\ tool' = Disturbed(tool)
  /\ last' = NoOp
  /\ UNCHANGED <<probe, company, run, storage, thread>>

\* document.ts updateDocumentData (the version that also sets the status):
\* the table after the mutation; no data given returns before any write.
documentAfterUpdate_PatchesAlways(documentId, data) ==
  LET doc == document[documentId]
      mergedData == mergeDocumentData(doc.data, data)
  IN  [document EXCEPT
         ![documentId].data = mergedData,
         ![documentId].hasData = TRUE,
         ![documentId].status = statusAfterUpdate(doc.status, mergedData)]

documentAfterUpdate(documentId, data) ==
  LET doc == document[documentId]
      existingData == doc.data
      mergedData == mergeDocumentData(existingData, data)
  IN  IF data = <<>>
        THEN document
        ELSE [document EXCEPT
                ![documentId].data = mergedData,
                ![documentId].hasData = TRUE,
                ![documentId].status = statusAfterUpdate(doc.status, mergedData)]

updateDocumentData(documentId, data) ==
  /\ Exists(documentId)
  /\ Len(mergeDocumentData(document[documentId].data, data)) <= MaxFields
  /\ document' = documentAfterUpdate(documentId, data)
  /\ last' = NoOp
  /\ tool' = Disturbed(tool)
  /\ UNCHANGED <<probe, company, run, storage, thread>>

\* agent.ts getCompanyData: the company with aggregatedData.
getCompanyData(companyId) ==
  /\ companyId \in DOMAIN company
  /\ last' = [[NoOp EXCEPT !.op = "getCompanyData", !.id = companyId]
                EXCEPT !.result =
                  internalAggregateCompanyDataFromDocuments(companyId)]
  /\ UNCHANGED <<probe, company, document, tool, run, storage, thread>>

\* agent.ts populateCompanyDataFromDocuments, first step: the query.
populateAggregate(companyId) ==
  /\ tool.pc = "idle"
  /\ companyId \in DOMAIN company
  /\ tool' = [ pc |-> "aggregated", cid |-> companyId,
               data |-> internalAggregateCompanyDataFromDocuments(companyId),
               clean |-> TRUE,
               again |-> /\ last.op = "populateCompanyDataFromDocuments"
                         /\ last.id = companyId
                         /\ last.flag ]
  /\ last' = NoOp
  /\ UNCHANGED <<probe, company, document, run, storage, thread>>

\* Second step: internalUpdateCompanyData with the aggregated data, and the
\* tool's return value {success: true, data: aggregatedData}.
populateUpdate ==
  /\ tool.pc = "aggregated"
  /\ company' = [company EXCEPT
                   ![tool.cid].data = sanitizeCompanyData(ObjectEntries(tool.data))]
  /\ last' = [ op |-> "populateCompanyDataFromDocuments", id |-> tool.cid,
               result |-> tool.data, flag |-> tool.clean,
               before |-> IF tool.again /\ tool.clean
                            THEN <<"again", company[tool.cid].data>>
                            ELSE <<>> ]
  /\ tool' = NoTool
  /\ UNCHANGED <<probe, document, run, storage, thread>>

InitCompany ==
  /\ probe = NoProbe
  /\ company = <<>>
  /\ document = [n \in 1..MaxDocs |-> ReviewedDocument(n)]
  /\ tool = NoTool
  /\ run = <<>>
  /\ storage = <<>>
  /\ thread = <<>>
  /\ last = NoOp

NextCompany ==
  \/ \E entries \in CompanyDataArgs : createCompany(entries)
  \/ \E d \in DOMAIN document, entries \in CompanyDataArgs :
       toolCreateCompany(d, entries)
  \/ \E id \in DOMAIN company, entries \in CompanyDataArgs :
       updateCompany(id, entries)
  \/ \E d \in DOMAIN document, id \in DOMAIN company :
       linkCompanyToDocument(d, id)
  \/ \E d \in DOMAIN document, data \in DataArgsUpTo(MaxUpdate) :
       updateDocumentData(d, data)
  \/ \E id \in DOMAIN company : getCompanyData(id)

SpecCompany == InitCompany /\ [][NextCompany]_vars

\* SpecPopulate: the same operations with the populate tool, whose query and
\* mutation are two transactions that other writes may come between.
InitPopulate ==
  /\ probe = NoProbe
  /\ company = <<>>
  /\ document = [n \in 1..MaxPopulateDocs |-> ReviewedDocument(n)]
  /\ tool = NoTool
  /\ run = <<>>
  /\ storage = <<>>
  /\ thread = <<>>
  /\ last = NoOp

NextPopulate ==
  \/ NextCompany
  \/ \E id \in DOMAIN company : populateAggregate(id)
  \/ populateUpdate

SpecPopulate == InitPopulate /\ [][NextPopulate]_vars

-------------------------------------------------------------------------------------
(* SpecDocData: the agent's updateDocumentData tool called again and again on
   the documents, each call remembering its arguments and the data it met. *)

\* agent.ts updateDocumentData tool: runMutation(updateDocumentData, ...).
toolUpdateDocumentData(documentId, data) ==
  /\ Exists(documentId)
  /\ Len(mergeDocumentData(document[documentId].data, data)) <= MaxFields
  /\ document' = documentAfterUpdate(documentId, data)
  /\ last' = [ op |-> "updateDocumentData", id |-> documentId,
               result |-> data,
               flag |-> /\ last.op = "updateDocumentData"
                        /\ last.id = documentId
                        /\ last.result = data,
               before |-> document[documentId] ]
  /\ UNCHANGED <<probe, company, tool, run, storage, thread>>

InitDocData ==
  /\ probe = NoProbe
  /\ company = <<>>
  /\ \E status \in [1..MaxDocs -> Statuses] :
       document = [n \in 1..MaxDocs |-> DocumentInStatus(n, status[n])]
  /\ tool = NoTool
  /\ run = <<>>
  /\ storage = <<>>
  /\ thread = <<>>
  /\ last = NoOp

NextDocData ==
  \E d \in DOMAIN document, data \in DataArgsUpTo(MaxData) :
    toolUpdateDocumentData(d, data)

SpecDocData == InitDocData /\ [][NextDocData]_vars

-----------------------------------------------------------------------------
(* Spec: files are stored, documents uploaded for a company or for none, and
   every upload schedules a run of extractFieldsFromDocument; the runs take
   their steps, one per awaited call, in any interleaving. *)

ParsedField(label, description, placeholderPattern, value) ==
  [ label |-> label, description |-> description,
    placeholderPattern |-> placeholderPattern, value |-> value ]

\* What the model answers for generateObject: fields that are filled in the
\* document or not, one with an accented letter in its label, one with the
\* placeholder it was found at.
ExtractedFieldPool ==
  { ParsedField("Company Name", "", JsUndefined, JsString(" Acme ")),
    ParsedField("Company Name", "", JsUndefined, JsUndefined),
    ParsedField("Company Si" \o EAcute \o "ge", "", JsUndefined, JsString("Paris")),
    ParsedField("Company Si" \o EAcute \o "ge", "", JsUndefined, JsString("")),
    ParsedField("Signing Date", "", JsString(" [Date] "), JsString("")) }

ExtractedObjects ==
  { [title |-> "Agreement", data |-> data, errorMessage |-> JsUndefined] :
      data \in UNION { [1..n -> ExtractedFieldPool] : n \in 0..MaxExtracted } }
  \cup { [title |-> "", data |-> <<>>, errorMessage |-> JsString("Unreadable")] }

DocxType ==
  "application/vnd.openxmlformats-officedocument.wordprocessingml.document"

FilePool ==
  { [type |-> DocxType, text |-> "Sold by\n \n[Company Name] on",
     deleted |-> FALSE],
    [type |-> "application/pdf", text |-> "Sold by Company Name",
     deleted |-> FALSE] }

\* ctx.storage.get(fileId) finds the file.
Stored(fileId) == fileId \in DOMAIN storage /\ ~storage[fileId].deleted

\* ctx.scheduler.runAfter(0, internal.parser.extractFieldsFromDocument, ...)
ScheduledRun(documentId) ==
  [ action |-> "extractFieldsFromDocument",
    documentId |-> documentId, pc |-> "scheduled", companyId |-> 0,
    rawText |-> "", threadId |-> 0,
    object |-> [title |-> "", data |-> <<>>, errorMessage |-> JsUndefined],
    enrichedData |-> <<>>, companyData |-> EmptyObject,
    errorMessage |-> "", afterError |-> "done",
    written |-> <<>>, dataAtStart |-> <<>>, wroteData |-> FALSE,
    failure |-> "none" ]

\* The upload of a file to the URL of generateUploadUrl.
storeFile(file) ==
  /\ storage' = Append(storage, file)
  /\ last' = NoOp
  /\ UNCHANGED <<probe, company, document, tool, run, thread>>

\* document.ts uploadDocument
uploadDocument(originalFileId, companyId) ==
  /\ Len(document) < MaxUploads
  /\ originalFileId \in DOMAIN storage
  /\ companyId = 0 \/ companyId \in DOMAIN company
  /\ document' =
       Append(document,
              [ title |-> JsUndefined, uploadedById |-> "user1",
                companyId |-> companyId, threadId |-> 0,
                originalFileId |-> originalFileId, status |-> "uploaded",
                hasData |-> FALSE, data |-> <<>>, errorMessage |-> JsUndefined,
                generatedFileId |-> 0, deleted |-> FALSE ])
  /\ run' = Append(run, ScheduledRun(Len(document) + 1))
  /\ last' = NoOp
  /\ UNCHANGED <<probe, company, tool, storage, thread>>

\* Where the run goes on after it has written status 'error': the catch of
\* the extraction and the errorMessage branch return, the catch of the
\* initial response does not.
AfterExtractionCatch_FallThrough == "generateText"
AfterExtractionCatch == "done"
AfterInitialResponseCatch == "updateDocumentStatusReview"

\* What the run does with the thread it created: the id is stored on the
\* document before the model is asked for anything.
AfterCreateThread_SkipStore == "generateObject"
AfterCreateThread == "updateDocumentThread"

Step(r, pc) ==
  /\ r \in DOMAIN run
  /\ run[r].action = "extractFieldsFromDocument"
  /\ run[r].pc = pc

Fail(r, failure, errorMessage, afterError) ==
  [ run EXCEPT ![r].pc = "updateDocumentErrorMessage",
               ![r].failure = failure,
               ![r].errorMessage = errorMessage,
               ![r].afterError = afterError ]

\* A mutation of the run throws 'Document not found' where no catch is
\* around it: the action ends there.
Die(r) ==
  [run EXCEPT ![r].pc = "done", ![r].failure = "documentNotFound"]

\* parser.ts 15-30: the document and its file are read.
extract_readDocument(r) ==
  /\ Step(r, "scheduled")
  /\ LET doc == document[run[r].documentId]
     IN  IF ~Exists(run[r].documentId)
           THEN run' = Die(r)
         ELSE IF ~Stored(doc.originalFileId)
           THEN run' = [run EXCEPT ![r].pc = "done",
                                   ![r].failure = "fileNotFound"]
           ELSE LET blob == storage[doc.originalFileId]
                    value == IF blob.type = DocxType THEN blob.text ELSE ""
                IN  run' = [run EXCEPT
                              ![r].pc = "updateDocumentStatusParsing",
                              ![r].companyId = doc.companyId,
                              ![r].rawText = removeEmptyLines(value),
                              ![r].dataAtStart = doc.data]
  /\ last' = NoOp
  /\ UNCHANGED <<probe, company, document, tool, storage, thread>>

\* document.ts updateDocumentStatus, as the run calls it.
WriteStatus(r, status, pc) ==
  /\ IF Exists(run[r].documentId)
       THEN /\ document' =
                 [document EXCEPT ![run[r].documentId].status = status]
            /\ run' = [run EXCEPT
                         ![r].pc = pc,
                         ![r].written = Append(run[r].written, status)]
       ELSE /\ document' = document
            /\ run' = Die(r)
  /\ last' = NoOp
  /\ UNCHANGED <<probe, company, tool, storage, thread>>

extract_updateDocumentStatusParsing(r) ==
  /\ Step(r, "updateDocumentStatusParsing")
  /\ WriteStatus(r, "parsing", "createThread")

extract_createThread(r) ==
  /\ Step(r, "createThread")
  /\ thread' = Append(thread,
                      [ userId |-> document[run[r].documentId].uploadedById,
                        documentId |-> run[r].documentId,
                        messages |-> <<>>, deleted |-> FALSE ])
  /\ run' = [run EXCEPT ![r].pc = AfterCreateThread,
                        ![r].threadId = Len(thread) + 1]
  /\ last' = NoOp
  /\ UNCHANGED <<probe, company, document, tool, storage>>

\* document.ts updateDocumentThread, as the run calls it.
extract_updateDocumentThread(r) ==
  /\ Step(r, "updateDocumentThread")
  /\ IF Exists(run[r].documentId)
       THEN /\ document' = [document EXCEPT
                              ![run[r].documentId].threadId = run[r].threadId]
            /\ run' = [run EXCEPT ![r].pc = "generateObject"]
       ELSE /\ document' = document
            /\ run' = Die(r)
  /\ last' = NoOp
  /\ UNCHANGED <<probe, company, tool, storage, thread>>

\* thread.generateObject throws: the catch of the extraction begins.
extract_generateObjectThrows(r) ==
  /\ Step(r, "generateObject")
  /\ run' = Fail(r, "generateObject throws",
                 "Failed to parse document, please try again.",
                 AfterExtractionCatch)
  /\ last' = NoOp
  /\ UNCHANGED <<probe, company, document, tool, storage, thread>>

\* thread.generateObject answers; if (result.object.errorMessage) ...
extract_generateObject(r, object) ==
  /\ Step(r, "generateObject")
  /\ run' =
       IF object.errorMessage.t = "string" /\ object.errorMessage.v # ""
         THEN Fail(r, "errorMessage returned", object.errorMessage.v,
                   "done")
         ELSE [run EXCEPT ![r].pc = "updateDocumentTitle",
                          ![r].object = object]
  /\ last' = NoOp
  /\ UNCHANGED <<probe, company, document, tool, storage, thread>>

\* document.ts updateDocumentTitle, then enrichFieldsWithDocumentContext.
extract_updateDocumentTitle(r) ==
  /\ Step(r, "updateDocumentTitle")
  /\ IF Exists(run[r].documentId)
       THEN /\ document' =
                 [document EXCEPT
                    ![run[r].documentId].title = JsString(run[r].object.title)]
            /\ run' =
                 [run EXCEPT
                    ![r].pc = IF run[r].companyId # 0
                                THEN "internalAggregateCompanyDataFromDocuments"
                                ELSE "updateDocumentData",
                    ![r].enrichedData =
                       enrichFieldsWithDocumentContext(run[r].rawText,
                                                       run[r].object.data)]
       ELSE /\ document' = document
            /\ run' = Fail(r, "updateDocumentTitle throws",
                           "Failed to parse document, please try again.",
                           AfterExtractionCatch)
  /\ last' = NoOp
  /\ UNCHANGED <<probe, company, tool, storage, thread>>

\* if (document.companyId): the aggregate is read and the fields filled from
\* it; a failure of the query is caught and the fields stay as they are.
extract_autoFill(r) ==
  /\ Step(r, "internalAggregateCompanyDataFromDocuments")
  /\ run' =
       IF run[r].companyId \notin DOMAIN company
         THEN [run EXCEPT ![r].pc = "updateDocumentData"]
         ELSE LET companyData ==
                    internalAggregateCompanyDataFromDocuments(run[r].companyId)
              IN  [run EXCEPT
                     ![r].pc = "updateDocumentData",
                     ![r].companyData = companyData,
                     ![r].enrichedData =
                        autoFillFieldsFromCompanyData(run[r].enrichedData,
                                                      companyData)]
  /\ last' = NoOp
  /\ UNCHANGED <<probe, company, document, tool, storage, thread>>

\* runMutation(updateDocumentData): the arguments are validated, then merged.
extract_updateDocumentData(r) ==
  /\ Step(r, "updateDocumentData")
  /\ LET documentId == run[r].documentId
         data == run[r].enrichedData
         after == documentAfterUpdate(documentId, ToDocumentData(data))
     IN  IF ~ValidDocumentData(data) \/ ~Exists(documentId)
           THEN /\ run' = Fail(r, "updateDocumentData throws",
                               "Failed to parse document, please try again.",
                               AfterExtractionCatch)
                /\ document' = document
           ELSE /\ Len(after[documentId].data) <= MaxFields
                /\ document' = after
                /\ run' = [run EXCEPT
                             ![r].pc = "generateText",
                             ![r].wroteData = TRUE,
                             ![r].written =
                                IF after[documentId].status
                                     # document[documentId].status
                                  THEN Append(run[r].written,
                                              after[documentId].status)
                                  ELSE run[r].written]
  /\ last' = NoOp
  /\ UNCHANGED <<probe, company, tool, storage, thread>>

extract_generateTextThrows(r) ==
  /\ Step(r, "generateText")
  /\ run' = Fail(r, "generateText throws",
                 "Failed to generate initial response, please try again.",
                 AfterInitialResponseCatch)
  /\ last' = NoOp
  /\ UNCHANGED <<probe, company, document, tool, storage, thread>>

extract_generateText(r) ==
  /\ Step(r, "generateText")
  /\ run' = [run EXCEPT ![r].pc = "saveMessage"]
  /\ last' = NoOp
  /\ UNCHANGED <<probe, company, document, tool, storage, thread>>

\* saveMessage of the agent component; a thread that is gone makes it throw
\* into the catch of the initial response.
extract_saveMessage(r) ==
  /\ Step(r, "saveMessage")
  /\ IF thread[run[r].threadId].deleted
       THEN /\ thread' = thread
            /\ run' = Fail(r, "saveMessage throws",
                           "Failed to generate initial response, please try again.",
                           AfterInitialResponseCatch)
       ELSE /\ thread' = [thread EXCEPT
                            ![run[r].threadId].messages =
                               Append(@, [role |-> "assistant"])]
            /\ run' = [run EXCEPT ![r].pc = "updateDocumentStatusReview"]
  /\ last' = NoOp
  /\ UNCHANGED <<probe, company, document, tool, storage>>

\* document.ts updateDocumentErrorMessage, as the three error paths call it.
extract_updateDocumentErrorMessage(r) ==
  /\ Step(r, "updateDocumentErrorMessage")
  /\ IF Exists(run[r].documentId)
       THEN /\ document' = [document EXCEPT
                              ![run[r].documentId].errorMessage =
                                 JsString(run[r].errorMessage)]
            /\ run' = [run EXCEPT ![r].pc = "updateDocumentStatusError"]
       ELSE /\ document' = document
            /\ run' = Die(r)
  /\ last' = NoOp
  /\ UNCHANGED <<probe, company, tool, storage, thread>>

extract_updateDocumentStatusError(r) ==
  /\ Step(r, "updateDocumentStatusError")
  /\ WriteStatus(r, "error", run[r].afterError)

extract_updateDocumentStatusReview(r) ==
  /\ Step(r, "updateDocumentStatusReview")
  /\ WriteStatus(r, "review", "done")

Init ==
  /\ probe = NoProbe
  /\ company = <<>>
  /\ document = <<>>
  /\ tool = NoTool
  /\ run = <<>>
  /\ storage = <<>>
  /\ thread = <<>>
  /\ last = NoOp

Next ==
  \/ \E file \in FilePool : Len(storage) < MaxFiles /\ storeFile(file)
  \/ createCompany(<<>>)
  \/ \E f \in DOMAIN storage, c \in {0} \cup DOMAIN company :
       uploadDocument(f, c)
  \/ \E r \in DOMAIN run : extract_readDocument(r)
  \/ \E r \in DOMAIN run : extract_updateDocumentStatusParsing(r)
  \/ \E r \in DOMAIN run : extract_createThread(r)
  \/ \E r \in DOMAIN run : extract_updateDocumentThread(r)
  \/ \E r \in DOMAIN run : extract_generateObjectThrows(r)
  \/ \E r \in DOMAIN run, object \in ExtractedObjects :
       extract_generateObject(r, object)
  \/ \E r \in DOMAIN run : extract_updateDocumentTitle(r)
  \/ \E r \in DOMAIN run : extract_autoFill(r)
  \/ \E r \in DOMAIN run : extract_updateDocumentData(r)
  \/ \E r \in DOMAIN run : extract_generateTextThrows(r)
  \/ \E r \in DOMAIN run : extract_generateText(r)
  \/ \E r \in DOMAIN run : extract_saveMessage(r)
  \/ \E r \in DOMAIN run : extract_updateDocumentErrorMessage(r)
  \/ \E r \in DOMAIN run : extract_updateDocumentStatusError(r)
  \/ \E r \in DOMAIN run : extract_updateDocumentStatusReview(r)

Spec == Init /\ [][Next]_vars

---------------------------------------------------------------------
(* The life of one document: it is uploaded and parsed, parsing is retried
   while earlier runs may still be under way, a generated file is attached,
   and the document is deleted by the deleteDocumentThread action that
   scheduleDocumentDeletion schedules.  Every awaited call is a step. *)

\* What an owner-only function does for a caller: it throws 'Document not
\* found', then 'Unauthorized', before it touches anything.
OwnerCheck_NoOwnership(userId, documentId) ==
  IF ~Exists(documentId) THEN "Document not found" ELSE "ok"

OwnerCheck(userId, documentId) ==
  IF ~Exists(documentId) THEN "Document not found"
  ELSE IF document[documentId].uploadedById # userId THEN "Unauthorized"
  ELSE "ok"

\* What the functions called by a user leave behind for the properties: the
\* caller, the outcome, and the tables as they were before the call.
Called(op, userId, documentId, result) ==
  [ op |-> op, id |-> documentId, userId |-> userId, result |-> result,
    flag |-> FALSE, before |-> [document |-> document, run |-> run] ]

\* The patch of retryDocumentParsing.
retryPatch_ClearsData(doc) ==
  [doc EXCEPT !.status = "uploaded", !.errorMessage = JsUndefined,
              !.data = <<>>, !.hasData = FALSE]
retryPatch(doc) ==
  [doc EXCEPT !.status = "uploaded", !.errorMessage = JsUndefined]

\* document.ts retryDocumentParsing
retryDocumentParsing(userId, documentId) ==
  /\ documentId \in DOMAIN document
  /\ LET outcome == OwnerCheck(userId, documentId)
     IN  /\ last' = Called("retryDocumentParsing", userId, documentId,
                           IF outcome = "ok" THEN [ok |-> TRUE]
                                             ELSE [error |-> outcome])
         /\ IF outcome = "ok"
              THEN /\ document' =
                        [document EXCEPT
                           ![documentId] = retryPatch(document[documentId])]
                   /\ run' = Append(run, ScheduledRun(documentId))
              ELSE UNCHANGED <<document, run>>
  /\ UNCHANGED <<probe, company, tool, storage, thread>>

\* document.ts editDocumentTitle, with the updateDocumentTitle it runs.
editDocumentTitle(userId, documentId, title) ==
  /\ documentId \in DOMAIN document
  /\ LET outcome == OwnerCheck(userId, documentId)
     IN  /\ last' = Called("editDocumentTitle", userId, documentId,
                           IF outcome = "ok" THEN [ok |-> TRUE]
                                             ELSE [error |-> outcome])
         /\ document' =
              IF outcome = "ok"
                THEN [document EXCEPT ![documentId].title = JsString(title)]
                ELSE document
  /\ UNCHANGED <<probe, company, tool, run, storage, thread>>

\* document.ts getDocumentDownloadUrl: what the query answers, the url of
\* the file or the error it throws.
getDocumentDownloadUrl(userId, documentId) ==
  /\ documentId \in DOMAIN document
  /\ LET outcome == OwnerCheck(userId, documentId)
         fileId == document[documentId].originalFileId
     IN  last' = Called("getDocumentDownloadUrl", userId, documentId,
                        IF outcome # "ok" THEN [error |-> outcome]
                        ELSE IF ~Stored(fileId)
                          THEN [error |-> "File not found"]
                        ELSE [url |-> fileId])
  /\ UNCHANGED <<probe, company, document, tool, run, storage, thread>>

\* document.ts getGeneratedFileDownloadUrl
getGeneratedFileDownloadUrl(userId, documentId) ==
  /\ documentId \in DOMAIN document
  /\ LET outcome == OwnerCheck(userId, documentId)
         fileId == document[documentId].generatedFileId
     IN  last' = Called("getGeneratedFileDownloadUrl", userId, documentId,
                        IF outcome # "ok" THEN [error |-> outcome]
                        ELSE IF fileId = 0
                          THEN [error |-> "No generated file found"]
                        ELSE IF ~Stored(fileId)
                          THEN [error |-> "Generated file not found"]
                        ELSE [url |-> fileId])
  /\ UNCHANGED <<probe, company, document, tool, run, storage, thread>>

\* document.ts addGeneratedFile
addGeneratedFile(documentId, generatedFileId) ==
  /\ Exists(documentId)
  /\ Stored(generatedFileId)
  /\ document' = [document EXCEPT
                    ![documentId].generatedFileId = generatedFileId]
  /\ last' = NoOp
  /\ UNCHANGED <<probe, company, tool, run, storage, thread>>

\* document.ts scheduleDocumentDeletion: any signed-in user schedules the
\* deleteDocumentThread action.
scheduleDocumentDeletion(documentId) ==
  /\ documentId \in DOMAIN document
  /\ run' = Append(run, [ScheduledRun(documentId) EXCEPT
                           !.action = "deleteDocumentThread"])
  /\ last' = NoOp
  /\ UNCHANGED <<probe, company, document, tool, storage, thread>>

\* chat.ts deleteDocumentThread: the document is read.
delete_internalGetDocument(r) ==
  /\ r \in DOMAIN run
  /\ run[r].action = "deleteDocumentThread"
  /\ run[r].pc = "scheduled"
  /\ run' =
       IF ~Exists(run[r].documentId)
         THEN Die(r)
         ELSE [run EXCEPT
                 ![r].threadId = document[run[r].documentId].threadId,
                 ![r].pc = IF document[run[r].documentId].threadId # 0
                             THEN "deleteThreadAsync"
                             ELSE "deleteDocument"]
  /\ last' = NoOp
  /\ UNCHANGED <<probe, company, document, tool, storage, thread>>

\* documentAgent.deleteThreadAsync of the thread the document named.
delete_deleteThreadAsync(r) ==
  /\ r \in DOMAIN run
  /\ run[r].action = "deleteDocumentThread"
  /\ run[r].pc = "deleteThreadAsync"
  /\ thread' = [thread EXCEPT ![run[r].threadId].deleted = TRUE]
  /\ run' = [run EXCEPT ![r].pc = "deleteDocument"]
  /\ last' = NoOp
  /\ UNCHANGED <<probe, company, document, tool, storage>>

\* The try of deleteDocument: ctx.storage.delete throws for a file that is
\* gone, which skips what is left of the try.
storageAfterDelete(doc) ==
  IF ~Stored(doc.originalFileId) THEN storage
  ELSE LET first == [storage EXCEPT ![doc.originalFileId].deleted = TRUE]
       IN  IF doc.generatedFileId = 0
                \/ first[doc.generatedFileId].deleted
             THEN first
             ELSE [first EXCEPT ![doc.generatedFileId].deleted = TRUE]

\* document.ts deleteDocument, as the action calls it.
delete_deleteDocument(r) ==
  /\ r \in DOMAIN run
  /\ run[r].action = "deleteDocumentThread"
  /\ run[r].pc = "deleteDocument"
  /\ LET documentId == run[r].documentId
     IN  IF ~Exists(documentId)
           THEN UNCHANGED <<document, storage>>
           ELSE /\ storage' = storageAfterDelete(document[documentId])
                /\ document' = [document EXCEPT ![documentId].deleted = TRUE]
  /\ run' = [run EXCEPT ![r].pc = "done"]
  /\ last' = NoOp
  /\ UNCHANGED <<probe, company, tool, thread>>

\* The answers of the model in the life of the document: fields, or an
\* errorMessage.
LifecycleObjects ==
  { [title |-> "Agreement",
     data |-> <<ParsedField("Signing Date", "", JsUndefined, JsUndefined)>>,
     errorMessage |-> JsUndefined],
    [title |-> "", data |-> <<>>, errorMessage |-> JsString("Unreadable")] }

RunsOf(action) == { r \in DOMAIN run : run[r].action = action }

NextLifecycle ==
  \/ \E file \in FilePool :
       /\ file.type = DocxType
       /\ Len(storage) < MaxLifecycleFiles
       /\ storeFile(file)
  \/ \E f \in DOMAIN storage :
       Len(document) < MaxLifecycleDocs /\ uploadDocument(f, 0)
  \/ \E d \in DOMAIN document :
       /\ Cardinality(RunsOf("extractFieldsFromDocument")) < MaxLifecycleRuns
       /\ retryDocumentParsing("user1", d)
  \/ \E d \in DOMAIN document, f \in DOMAIN storage :
       /\ f # document[d].originalFileId
       /\ document[d].generatedFileId = 0
       /\ addGeneratedFile(d, f)
  \/ \E d \in DOMAIN document :
       /\ Cardinality(RunsOf("deleteDocumentThread")) < MaxDeletions
       /\ scheduleDocumentDeletion(d)
  \/ \E r \in DOMAIN run : delete_internalGetDocument(r)
  \/ \E r \in DOMAIN run : delete_deleteThreadAsync(r)
  \/ \E r \in DOMAIN run : delete_deleteDocument(r)
  \/ \E r \in DOMAIN run : extract_readDocument(r)
  \/ \E r \in DOMAIN run : extract_updateDocumentStatusParsing(r)
  \/ \E r \in DOMAIN run : extract_createThread(r)
  \/ \E r \in DOMAIN run : extract_updateDocumentThread(r)
  \/ \E r \in DOMAIN run : extract_generateObjectThrows(r)
  \/ \E r \in DOMAIN run, object \in LifecycleObjects :
       extract_generateObject(r, object)
  \/ \E r \in DOMAIN run : extract_updateDocumentTitle(r)
  \/ \E r \in DOMAIN run : extract_updateDocumentData(r)
  \/ \E r \in DOMAIN run : extract_generateTextThrows(r)
  \/ \E r \in DOMAIN run : extract_generateText(r)
  \/ \E r \in DOMAIN run : extract_saveMessage(r)
  \/ \E r \in DOMAIN run : extract_updateDocumentErrorMessage(r)
  \/ \E r \in DOMAIN run : extract_updateDocumentStatusError(r)
  \/ \E r \in DOMAIN run : extract_updateDocumentStatusReview(r)

SpecLifecycle == Init /\ [][NextLifecycle]_vars

---------------------------------------------------------------------
(* The functions only the uploader of a document may call, called by the
   uploader and by another signed-in user, for a document in any status and
   for one that has been deleted. *)

InitOwner ==
  /\ probe = NoProbe
  /\ company = <<>>
  /\ \E status \in Statuses, generatedFileId \in {0, 2} :
       document =
         << [ DocumentInStatus(1, "completed") EXCEPT
                !.status = status,
                !.generatedFileId = generatedFileId,
                !.errorMessage =
                   IF status = "error"
                     THEN JsString("Failed to parse document, please try again.")
                     ELSE JsUndefined ],
            [ ReviewedDocument(2) EXCEPT !.deleted = TRUE ] >>
  /\ tool = NoTool
  /\ run = <<>>
  /\ \E original, generated \in FilePool :
       storage = << original,
                    [generated EXCEPT !.deleted = TRUE] >>
          \/ storage = << [original EXCEPT !.deleted = TRUE], generated >>
          \/ storage = << original, generated >>
  /\ thread = << [ userId |-> "user1", documentId |-> 1,
                   messages |-> <<>>, deleted |-> FALSE ] >>
  /\ last = NoOp

NextOwner ==
  \/ \E userId \in {"user1", "user2"}, d \in DOMAIN document :
       Len(run) < MaxOwnerRuns /\ retryDocumentParsing(userId, d)
  \/ \E userId \in {"user1", "user2"}, d \in DOMAIN document, title \in {"Lease", "NDA"} :
       editDocumentTitle(userId, d, title)
  \/ \E userId \in {"user1", "user2"}, d \in DOMAIN document :
       getDocumentDownloadUrl(userId, d)
  \/ \E userId \in {"user1", "user2"}, d \in DOMAIN document :
       getGeneratedFileDownloadUrl(userId, d)

SpecOwner == InitOwner /\ [][NextOwner]_vars

---------------------------------------------------------------------
(* searchCompanies, the query of company.ts and the tool of agent.ts, which
   score, filter, sort and cut the companies in the same way.  A score is a
   fraction [n, d]; the float division of two lengths below 2^53 orders as
   the fractions do. *)

\* .slice(0, 10)
SearchLimit == 10

\* score: exactMatch ? 1 : containsMatch ? 0.8 : similarityScore
matchScore(normalizedSearch, normalizedName) ==
  LET containsMatch == \/ includes(normalizedName, normalizedSearch)
                       \/ includes(normalizedSearch, normalizedName)
      exactMatch == normalizedName = normalizedSearch
      minLength == IF Len(normalizedSearch) < Len(normalizedName)
                     THEN Len(normalizedSearch) ELSE Len(normalizedName)
      maxLength == IF Len(normalizedSearch) < Len(normalizedName)
                     THEN Len(normalizedName) ELSE Len(normalizedSearch)
      \* for (let i = 0; i < minLength; i++) if (... === ...) similarity++
      similarityUpTo[i \in 0..minLength] ==
        IF i = 0 THEN 0
        ELSE similarityUpTo[i - 1]
               + (IF Chr(normalizedSearch, i) = Chr(normalizedName, i)
                    THEN 1 ELSE 0)
  IN  IF exactMatch THEN [n |-> 1, d |-> 1]
      ELSE IF containsMatch THEN [n |-> 4, d |-> 5]
      ELSE [n |-> similarityUpTo[minLength], d |-> maxLength]

\* .sort((a, b) => b.score - a.score): the sort is stable, so among equal
\* scores the order of the table stays.
sortMatches_Unsorted(matches) == matches

RECURSIVE sortMatches(_)
sortMatches(matches) ==
  IF matches = <<>> THEN <<>>
  ELSE LET first ==
             CHOOSE i \in DOMAIN matches :
               /\ \A j \in DOMAIN matches :
                    matches[j].score.n * matches[i].score.d
                      <= matches[i].score.n * matches[j].score.d
               /\ \A j \in 1..(i - 1) :
                    matches[j].score.n * matches[i].score.d
                      < matches[i].score.n * matches[j].score.d
       IN  <<matches[first]>>
             \o sortMatches(SubSeq(matches, 1, first - 1)
                              \o SubSeq(matches, first + 1, Len(matches)))

\* company.ts searchCompanies: the ids of the companies it returns.
searchCompanies(searchTerm) ==
  LET normalizedSearch == trim(toLowerCase(searchTerm))
      scored == [i \in DOMAIN company |->
                   [ company |-> i,
                     score |-> matchScore(normalizedSearch,
                                          trim(toLowerCase(company[i].name))) ]]
      \* match.score > 0.3
      IsMatch(match) == 10 * match.score.n > 3 * match.score.d
      sorted == sortMatches(SelectSeq(scored, IsMatch))
      top == SubSeq(sorted, 1,
                    IF Len(sorted) < SearchLimit THEN Len(sorted)
                                                 ELSE SearchLimit)
  IN  [i \in DOMAIN top |-> top[i].company]

\* The tables searched: a few companies with names of every kind of match,
\* and more companies than the query returns.
InitSearch ==
  /\ probe \in { [fn |-> "searchCompanies", args |-> searchTerm,
                  done |-> FALSE, out |-> <<>>] :
                 searchTerm \in {"ab", " Abcd", "abcdefghij"} }
  /\ \E names \in
         UNION { [1..m -> {"AB ", "abc", "ax", "xy", "abcx", "abcxxxxxxx"}] :
                   m \in 0..MaxSearchNames }
         \cup UNION { [1..m -> {"AB ", "abc"}] :
                        m \in (MaxSearchNames + 1)..MaxSearchCompanies } :
       company = [i \in DOMAIN names |->
                    [name |-> names[i], data |-> EmptyObject]]
  /\ document = <<>>
  /\ tool = NoTool
  /\ run = <<>>
  /\ storage = <<>>
  /\ thread = <<>>
  /\ last = NoOp

ApplySearch ==
  /\ probe.fn = "searchCompanies"
  /\ ~probe.done
  /\ probe' = [probe EXCEPT !.done = TRUE,
                            !.out = searchCompanies(probe.args)]
  /\ UNCHANGED <<company, document, tool, run, storage, thread, last>>

SpecSearch == InitSearch /\ [][ApplySearch]_vars

---------------------------------------------------------------------
(* DocumentUploader.tsx: the state of the component (files, uploadStatus)
   and its handlers.  handleSubmit is an async function: it runs up to an
   await, and the handlers the page leaves enabled run before it goes on.
   The three awaits (generateUploadUrl, the POST to the upload URL,
   uploadDocument) succeed or throw.  A File is an object: two selections
   of one name are two files.  All selected files pass validateFile. *)

\* setFiles(prev => prev.map(f => (f.file === file ? { ...f, ...patch } : f)))
patchFile(files, file, patch) ==
  [k \in DOMAIN files |->
     [field \in DOMAIN files[k] |->
        IF files[k].file = file /\ field \in DOMAIN patch
          THEN patch[field] ELSE files[k][field]]]

\* DocumentUploader.tsx handleFilesSelect; the input and the drop zone are
\* disabled while uploadStatus is 'uploading'.
handleFilesSelect(fileList) ==
  /\ probe.uploadStatus # "uploading"
  /\ LET isDuplicate(name) ==
           \E k \in DOMAIN probe.files : probe.files[k].file.name = name
         names == SelectSeq(fileList, LAMBDA name : ~isDuplicate(name))
         newFiles == [k \in DOMAIN names |->
                        [ file |-> [id |-> probe.created + k, name |-> names[k]],
                          status |-> "pending", progress |-> 0 ]]
     IN  /\ probe.created + Len(newFiles) <= MaxSelected
         /\ probe' = IF newFiles # <<>>
                       THEN [probe EXCEPT
                               !.files = probe.files \o newFiles,
                               !.uploadStatus = "idle",
                               !.created = probe.created + Len(newFiles)]
                       ELSE probe
  /\ UNCHANGED <<company, document, tool, run, storage, thread, last>>

\* DocumentUploader.tsx handleRemoveFile; the button of a file that is
\* 'uploading' is disabled.
handleRemoveFile(k) ==
  /\ k \in DOMAIN probe.files
  /\ probe.files[k].status # "uploading"
  /\ probe' = [probe EXCEPT
                 !.files = SubSeq(probe.files, 1, k - 1)
                             \o SubSeq(probe.files, k + 1, Len(probe.files)),
                 !.uploadStatus = IF Len(probe.files) = 1 THEN "idle" ELSE @]
  /\ UNCHANGED <<company, document, tool, run, storage, thread, last>>

\* DocumentUploader.tsx handleClearAll; the button is not shown while
\* uploadStatus is 'uploading'.
handleClearAll ==
  /\ probe.uploadStatus # "uploading"
  /\ probe' = [probe EXCEPT !.files = <<>>, !.uploadStatus = "idle"]
  /\ UNCHANGED <<company, document, tool, run, storage, thread, last>>

\* DocumentUploader.tsx handleSubmit, lines 60-83: up to the first await.
\* The submit button is shown while a file is pending and disabled while
\* uploadStatus is 'uploading'.
handleSubmit ==
  /\ probe.uploadStatus # "uploading"
  /\ LET pending == SelectSeq(probe.files, LAMBDA f : f.status = "pending")
         pendingFiles == [k \in DOMAIN pending |-> pending[k].file]
         uploading == [k \in DOMAIN probe.files |->
                         IF probe.files[k].status = "pending"
                           THEN [probe.files[k] EXCEPT !.status = "uploading",
                                                       !.progress = 0]
                           ELSE probe.files[k]]
     IN  /\ pendingFiles # <<>>
         /\ probe' = [probe EXCEPT
                        !.uploadStatus = "uploading",
                        !.files = patchFile(uploading, pendingFiles[1],
                                            [progress |-> 10,
                                             status |-> "uploading"])]
         /\ run' = Append(run, [ action |-> "handleSubmit",
                                 pc |-> "generateUploadUrl",
                                 pendingFiles |-> pendingFiles, i |-> 1,
                                 uploaded |-> <<>>, failed |-> <<>>,
                                 finished |-> <<>> ])
  /\ UNCHANGED <<company, document, tool, storage, thread, last>>

\* handleSubmit goes on after an await, lines 83-124: the call answered
\* (ok) or threw; after the last await of a file the loop goes to the next
\* file, or to the check at the end.
submit_resume(s, ok) ==
  /\ s \in DOMAIN run
  /\ run[s].action = "handleSubmit"
  /\ run[s].pc # "done"
  /\ LET submit == run[s]
         file == submit.pendingFiles[submit.i]
         fileDone == ~ok \/ submit.pc = "uploadDocument"
         files1 ==
           IF ~ok THEN patchFile(probe.files, file, [status |-> "error"])
           ELSE IF submit.pc = "generateUploadUrl"
             THEN patchFile(probe.files, file, [progress |-> 30])
           ELSE IF submit.pc = "fetch"
             THEN patchFile(probe.files, file, [progress |-> 70])
           ELSE patchFile(probe.files, file,
                          [progress |-> 100, status |-> "success"])
         uploadStatus1 == IF ~ok THEN "error" ELSE probe.uploadStatus
         last1 == fileDone /\ submit.i = Len(submit.pendingFiles)
         \* the next turn of the loop, line 80
         files2 ==
           IF fileDone /\ ~last1
             THEN patchFile(files1, submit.pendingFiles[submit.i + 1],
                            [progress |-> 10, status |-> "uploading"])
             ELSE files1
         \* the check at the end, lines 117-124
         allDone == \A k \in DOMAIN files2 :
                      files2[k].status \in {"success", "error"}
         allSuccess == \A k \in DOMAIN files2 : files2[k].status = "success"
         uploadStatus2 ==
           IF last1 /\ allDone
             THEN (IF allSuccess THEN "success" ELSE "error")
             ELSE uploadStatus1
     IN  /\ probe' = [probe EXCEPT !.files = files2,
                                   !.uploadStatus = uploadStatus2]
         /\ run' =
              [run EXCEPT
                 ![s].pc = IF last1 THEN "done"
                           ELSE IF fileDone THEN "generateUploadUrl"
                           ELSE IF submit.pc = "generateUploadUrl" THEN "fetch"
                           ELSE "uploadDocument",
                 ![s].i = IF fileDone /\ ~last1 THEN submit.i + 1 ELSE submit.i,
                 ![s].uploaded = IF ok /\ fileDone THEN Append(@, file) ELSE @,
                 ![s].failed = IF ~ok THEN Append(@, file) ELSE @,
                 ![s].finished =
                    IF last1 THEN << [files |-> files2,
                                      uploadStatus |-> uploadStatus2] >>
                             ELSE @]
  /\ UNCHANGED <<company, document, tool, storage, thread, last>>

InitUploader ==
  /\ probe = [ fn |-> "DocumentUploader", files |-> <<>>,
               uploadStatus |-> "idle", created |-> 0 ]
  /\ company = <<>>
  /\ document = <<>>
  /\ tool = NoTool
  /\ run = <<>>
  /\ storage = <<>>
  /\ thread = <<>>
  /\ last = NoOp

NextUploader ==
  \/ \E fileList \in { <<"a.pdf">>, <<"b.docx">>, <<"a.pdf", "b.docx">> } :
       handleFilesSelect(fileList)
  \/ \E k \in DOMAIN probe.files : handleRemoveFile(k)
  \/ handleClearAll
  \/ Len(run) < MaxSubmits /\ handleSubmit
  \/ \E s \in DOMAIN run : submit_resume(s, TRUE)
  \/ \E s \in DOMAIN run : submit_resume(s, FALSE)

SpecUploader == InitUploader /\ [][NextUploader]_vars

---------------------------------------------------------------------
(* The chat of a document in review: every message of the user schedules a
   generateResponse run, and the runs of one document overlap.  A run reads
   the document through the getDocument tool and saves the answer of the
   user through the updateDocumentData tool as the instructions of the agent
   require: all fields as read, the answered one changed. *)

\* The document the chat is about, as extraction left it.
ChatDocument ==
  [ReviewedDocument(1) EXCEPT
     !.hasData = TRUE,
     !.data = << Field("Company Name", "", JsString("")),
                 Field("Signing Date", "", JsString("")) >>]

\* chat.ts sendMessage: the message is saved and a response scheduled; the
\* message answers the question about one field.
sendMessage(documentId, threadId, label, value) ==
  /\ Exists(documentId)
  /\ threadId \in DOMAIN thread
  /\ thread' = [thread EXCEPT
                  ![threadId].messages = Append(@, [role |-> "user"])]
  /\ run' = Append(run, [ action |-> "generateResponse",
                          documentId |-> documentId, threadId |-> threadId,
                          pc |-> "getDocument", label |-> label,
                          value |-> value, read |-> <<>> ])
  /\ last' = NoOp
  /\ UNCHANGED <<probe, company, document, tool, storage>>

\* agent.ts getDocument tool
chat_getDocument(r) ==
  /\ r \in DOMAIN run
  /\ run[r].action = "generateResponse"
  /\ run[r].pc = "getDocument"
  /\ run' = [run EXCEPT ![r].read = document[run[r].documentId].data,
                        ![r].pc = "updateDocumentData"]
  /\ last' = NoOp
  /\ UNCHANGED <<probe, company, document, tool, storage, thread>>

\* agent.ts updateDocumentData tool, called with all fields as read and the
\* answered one changed.
chat_updateDocumentData(r) ==
  /\ r \in DOMAIN run
  /\ run[r].action = "generateResponse"
  /\ run[r].pc = "updateDocumentData"
  /\ Exists(run[r].documentId)
  /\ LET data == [i \in DOMAIN run[r].read |->
                    IF run[r].read[i].label = run[r].label
                      THEN [run[r].read[i] EXCEPT
                              !.value = JsString(run[r].value)]
                      ELSE run[r].read[i]]
     IN  document' = documentAfterUpdate(run[r].documentId, data)
  /\ run' = [run EXCEPT ![r].pc = "saveMessage"]
  /\ last' = NoOp
  /\ UNCHANGED <<probe, company, tool, storage, thread>>

\* thread.generateText saves the response of the agent.
chat_saveMessage(r) ==
  /\ r \in DOMAIN run
  /\ run[r].action = "generateResponse"
  /\ run[r].pc = "saveMessage"
  /\ thread' = [thread EXCEPT
                  ![run[r].threadId].messages =
                     Append(@, [role |-> "assistant"])]
  /\ run' = [run EXCEPT ![r].pc = "done"]
  /\ last' = NoOp
  /\ UNCHANGED <<probe, company, document, tool, storage>>

InitChat ==
  /\ probe = NoProbe
  /\ company = <<>>
  /\ document = <<ChatDocument>>
  /\ tool = NoTool
  /\ run = <<>>
  /\ storage = <<>>
  /\ thread = << [ userId |-> "user1", documentId |-> 1,
                   messages |-> <<>>, deleted |-> FALSE ] >>
  /\ last = NoOp

NextChat ==
  \/ \E d \in DOMAIN document, value \in {"Acme", "2024"} :
       \E i \in DOMAIN document[d].data :
         /\ Len(run) < MaxChatRuns
         /\ sendMessage(d, document[d].threadId,
                        document[d].data[i].label, value)
  \/ \E r \in DOMAIN run : chat_getDocument(r)
  \/ \E r \in DOMAIN run : chat_updateDocumentData(r)
  \/ \E r \in DOMAIN run : chat_saveMessage(r)

SpecChat == InitChat /\ [][NextChat]_vars

---------------------------------------------------------------------
(* Claims about the pure functions of company.ts. *)

IsFilled(value) ==
  /\ value # JsUndefined
  /\ value # JsNull
  /\ ~(value.t = "string" /\ trim(value.v) = "")

\* C6: isCompanyLevelField gives the document-specific keywords precedence:
\* it is false whenever the lowercased text "label description" contains a
\* document-specific keyword; otherwise it is true exactly when the text
\* contains a company-level keyword, or the label contains "company" but not
\* "party", or the label contains "share" or "capital" but neither
\* "agreement" nor "contract".
C6_Text(label, description) ==
  trim(toLowerCase(label)) \o " " \o trim(toLowerCase(description))

C6_Expected(label, description) ==
  LET text == C6_Text(label, description)
      lab == toLowerCase(label)
  IN  /\ ~(\E i \in DOMAIN documentKeywords : includes(text, documentKeywords[i]))
      /\ \/ \E i \in DOMAIN companyKeywords : includes(text, companyKeywords[i])
         \/ includes(lab, "company") /\ ~includes(lab, "party")
         \/ /\ includes(lab, "share") \/ includes(lab, "capital")
            /\ ~includes(lab, "agreement")
            /\ ~includes(lab, "contract")

C6_DocumentKeywordsTakePrecedence ==
  (probe.fn = "isCompanyLevelField" /\ probe.done) =>
    probe.out = C6_Expected(probe.args[1], probe.args[2])

\* A field whose text holds both a company-level and a document-specific
\* keyword has been classified, as document-specific.
C6_Witness ==
  /\ probe.fn = "isCompanyLevelField" /\ probe.done
  /\ includes(C6_Text(probe.args[1], probe.args[2]), "company name")
  /\ includes(C6_Text(probe.args[1], probe.args[2]), "term")
  /\ probe.out = FALSE

\* C7: sanitizeCompanyData resolves collisions of canonical keys: the output
\* has an entry for a canonical key exactly when some raw key with that
\* canonical key has a value that is not null, undefined or blank, and the
\* entry's value is the trimmed value of the last such raw key in input
\* order; raw keys that normalize to the empty string are dropped.
C7_LastFilled(entries, k) ==
  CHOOSE i \in DOMAIN entries :
    /\ normalizeCompanyDataKey(entries[i][1]) = k
    /\ IsFilled(entries[i][2])
    /\ \A j \in DOMAIN entries :
         (normalizeCompanyDataKey(entries[j][1]) = k /\ IsFilled(entries[j][2]))
           => j <= i

C7_Trimmed(value) == IF value.t = "string" THEN JsString(trim(value.v)) ELSE value

C7_CollisionsResolvedByLastFilled ==
  (probe.fn = "sanitizeCompanyData" /\ probe.done) =>
    LET entries == probe.args
        out == probe.out
        FilledKeys == { normalizeCompanyDataKey(entries[i][1]) :
                          i \in { j \in DOMAIN entries : IsFilled(entries[j][2]) } }
    IN  /\ DOMAIN out = FilledKeys \ {null}
        /\ \A k \in DOMAIN out :
             out[k] = C7_Trimmed(entries[C7_LastFilled(entries, k)][2])

\* Two filled raw keys with one canonical key and different values have been
\* sanitized.
C7_Witness ==
  /\ probe.fn = "sanitizeCompanyData" /\ probe.done
  /\ \E i, j \in DOMAIN probe.args :
       /\ i < j
       /\ normalizeCompanyDataKey(probe.args[i][1]) # null
       /\ normalizeCompanyDataKey(probe.args[i][1]) = normalizeCompanyDataKey(probe.args[j][1])
       /\ IsFilled(probe.args[i][2]) /\ IsFilled(probe.args[j][2])
       /\ C7_Trimmed(probe.args[i][2]) # C7_Trimmed(probe.args[j][2])
       /\ probe.out[normalizeCompanyDataKey(probe.args[j][1])] = C7_Trimmed(probe.args[j][2])

-----------------------------------------------------------------------------
(* Claims about the company data. *)

TrimmedValue(value) ==
  IF value.t = "string" THEN JsString(trim(value.v)) ELSE value

\* The filled company-level fields of the documents of a company whose
\* canonical key is k, as <<document, index>> places.
FilledCompanyLevelPlaces(companyId, k) ==
  { p \in UNION { {d} \X DOMAIN document[d].data : d \in DOMAIN document } :
      LET doc == document[p[1]]
          item == doc.data[p[2]]
      IN  /\ doc.companyId = companyId
          /\ doc.hasData
          /\ IsFilled(item.value)
          /\ isCompanyLevelField(item.label, item.description)
          /\ normalizeCompanyDataKey(item.label) = k }

\* p is at or after q: a later document, or the same one and a later field.
AtOrAfter(p, q) == p[1] > q[1] \/ (p[1] = q[1] /\ p[2] >= q[2])

LastPlace(places) == CHOOSE p \in places : \A q \in places : AtOrAfter(p, q)

\* C2: the aggregated value of a canonical key is the trimmed value of the
\* last filled company-level field with that key, over the company's
\* documents in creation order and their fields in array order; without such
\* a field it is the sanitized value stored on the company; otherwise the key
\* is absent.
C2_AggregationPrecedence ==
  last.op = "getCompanyData" =>
    LET cid == last.id
        result == last.result
        stored == sanitizeCompanyData(ObjectEntries(company[cid].data))
        labelKeys ==
          { normalizeCompanyDataKey(document[p[1]].data[p[2]].label) :
              p \in UNION { {d} \X DOMAIN document[d].data : d \in DOMAIN document } }
        keys == (DOMAIN result \cup DOMAIN stored \cup labelKeys) \ {null}
    IN  \A k \in keys :
          LET places == FilledCompanyLevelPlaces(cid, k)
          IN  IF places # {}
                THEN /\ k \in DOMAIN result
                     /\ result[k] =
                          TrimmedValue(document[LastPlace(places)[1]]
                                         .data[LastPlace(places)[2]].value)
              ELSE IF k \in DOMAIN stored
                THEN k \in DOMAIN result /\ result[k] = stored[k]
              ELSE k \notin DOMAIN result

\* The aggregate has been read for a company that stores a value under a key
\* for which two of its documents hold different filled values: the later
\* document's value is returned.
C2_Witness ==
  /\ last.op = "getCompanyData"
  /\ \E k \in DOMAIN company[last.id].data :
       LET places == FilledCompanyLevelPlaces(last.id, k)
       IN  /\ \E p, q \in places :
                /\ p[1] > q[1]
                /\ TrimmedValue(document[p[1]].data[p[2]].value)
                     # TrimmedValue(document[q[1]].data[q[2]].value)
           /\ company[last.id].data[k] # last.result[k]

IsCanonicalKey(k) ==
  /\ k # ""
  /\ \A i \in 1..Len(k) : Chr(k, i) \in LowerAlnumChars \cup {"_"}
  /\ Chr(k, 1) # "_"
  /\ Chr(k, Len(k)) # "_"
  /\ ~includes(k, "__")

\* C3: every key of every stored company's data is canonical, and so is every
\* key of the data internalAggregateCompanyDataFromDocuments returns.
C3_KeysAreCanonical ==
  /\ \A c \in DOMAIN company :
       \A k \in DOMAIN company[c].data : IsCanonicalKey(k)
  /\ last.op \in {"getCompanyData", "populateCompanyDataFromDocuments"} =>
       \A k \in DOMAIN last.result : IsCanonicalKey(k)

\* A company holds two canonical keys, none of which was passed as it is
\* stored, and its aggregate has been read.
C3_Witness ==
  /\ last.op = "getCompanyData"
  /\ DOMAIN company[last.id].data = {"company_name", "signing_date"}
  /\ "company_name" \in DOMAIN last.result

\* C5: every entry of the aggregated data comes from a filled field of one of
\* the company's documents that isCompanyLevelField classifies as
\* company-level.
C5_OnlyCompanyLevelFields ==
  last.op = "getCompanyData" =>
    \A k \in DOMAIN last.result :
      \E p \in FilledCompanyLevelPlaces(last.id, k) :
        last.result[k] = TrimmedValue(document[p[1]].data[p[2]].value)

\* C8: after a run of populateCompanyDataFromDocuments the data stored on the
\* company is the data the tool returned, and a run that follows a run for
\* the same company with no write in between leaves company.data as it was.
C8_PopulateIdempotent ==
  last.op = "populateCompanyDataFromDocuments" =>
    /\ company[last.id].data = last.result
    /\ last.before # <<>> => company[last.id].data = last.before[2]

\* A second run has completed for a company whose data holds a value taken
\* from a document.
C8_Witness ==
  /\ last.op = "populateCompanyDataFromDocuments"
  /\ last.before # <<>>
  /\ "company_name" \in DOMAIN company[last.id].data
  /\ company[last.id].data["company_name"] = JsString("Acme")

-----------------------------------------------------------------------------
(* Claims about the document data. *)

\* C1: a call of updateDocumentData that repeats the call before it, on the
\* same document with the same non-empty data, leaves document.data as the
\* first call left it.
C1_UpdateIdempotent ==
  (last.op = "updateDocumentData" /\ last.flag /\ last.result # <<>>) =>
    document[last.id].data = last.before.data

-----------------------------------------------------------------------------
(* Claims about the extraction runs. *)

\* Some other document of the company holds a filled company-level field
\* with this label.
FilledElsewhere(companyId, documentId, label) ==
  \E d \in DOMAIN document \ {documentId} :
    /\ document[d].companyId = companyId
    /\ document[d].hasData
    /\ \E j \in DOMAIN document[d].data :
         LET item == document[d].data[j]
         IN  /\ item.label = label
             /\ isCompanyLevelField(item.label, item.description)
             /\ IsFilled(item.value)

\* C4: when a run has stored the fields of a document uploaded for a company,
\* every field the model returned without a value, whose label names a filled
\* company-level field of another document of the company, is stored with
\* the value the aggregate held for the canonical key of the label.
C4_CompanyDataReused ==
  \A r \in DOMAIN run :
    run[r].wroteData =>
      \A i \in DOMAIN run[r].object.data :
        LET field == run[r].object.data[i]
            k == normalizeCompanyDataKey(field.label)
            stored == document[run[r].documentId].data
        IN  ( /\ run[r].companyId # 0
              /\ ~IsFilled(field.value)
              /\ FilledElsewhere(run[r].companyId, run[r].documentId, field.label)
              /\ HasKey(run[r].companyData, k) )
            => \E j \in DOMAIN stored :
                 /\ stored[j].label = field.label
                 /\ stored[j].value = run[r].companyData[k]

ExtractionFailures ==
  {"generateObject throws", "errorMessage returned", "updateDocumentData throws"}

\* C9: a run whose extraction failed never writes 'review', never writes the
\* data and saves no message, and when it has stopped the document is in
\* status 'error' with a non-empty errorMessage and the data it had when the
\* run began.
C9_ExtractionFailureStopsInError ==
  \A r \in DOMAIN run :
    run[r].failure \in ExtractionFailures =>
      LET doc == document[run[r].documentId]
      IN  /\ \A i \in DOMAIN run[r].written : run[r].written[i] # "review"
          /\ ~run[r].wroteData
          /\ doc.data = run[r].dataAtStart
          /\ thread[run[r].threadId].messages = <<>>
          /\ run[r].pc = "done" =>
               /\ doc.status = "error"
               /\ doc.errorMessage.t = "string"
               /\ doc.errorMessage.v # ""

\* A run has stopped after the write of the extracted fields was rejected.
C9_Witness ==
  \E r \in DOMAIN run :
    /\ run[r].failure = "updateDocumentData throws"
    /\ run[r].pc = "done"
    /\ document[run[r].documentId].status = "error"

\* C10: every uploaded document has exactly one run, and is in status
\* 'uploaded' until its run writes; the first status a run writes is
\* 'parsing', it never writes 'completed' or 'uploaded', and the last status
\* written by a run that has finished its steps is 'review' or 'error'.
C10_StatusLifecycle ==
  /\ \A d \in DOMAIN document :
       Cardinality({ r \in DOMAIN run : run[r].documentId = d }) = 1
  /\ \A r \in DOMAIN run :
       LET written == run[r].written
       IN  /\ written = <<>> => document[run[r].documentId].status = "uploaded"
           /\ written # <<>> => written[1] = "parsing"
           /\ \A i \in DOMAIN written : written[i] \notin {"completed", "uploaded"}
           /\ (run[r].pc = "done" /\ written # <<>>) =>
                written[Len(written)] \in {"review", "error"}

\* A run has written the fields, all of them filled, and finished in review.
C10_Witness ==
  \E r \in DOMAIN run :
    /\ run[r].pc = "done"
    /\ run[r].written = <<"parsing", "review">>
    /\ run[r].wroteData
    /\ document[run[r].documentId].data # <<>>
    /\ allFieldsFilled(document[run[r].documentId].data)

---------------------------------------------------------------------
\* C11: once the deleteDocumentThread run that scheduleDocumentDeletion
\* scheduled has completed, the document record is gone, its original and
\* generated files are out of storage, and every agent thread that was ever
\* created for the document, the threads of parsing runs before a retry
\* included, has been deleted.
ThreadsOf(documentId) ==
  { t \in DOMAIN thread : thread[t].documentId = documentId }

C11_DeletionRemovesEverything ==
  \A r \in RunsOf("deleteDocumentThread") :
    run[r].pc = "done" =>
      LET doc == document[run[r].documentId]
      IN  /\ ~Exists(run[r].documentId)
          /\ ~Stored(doc.originalFileId)
          /\ doc.generatedFileId # 0 => ~Stored(doc.generatedFileId)
          /\ \A t \in ThreadsOf(run[r].documentId) : thread[t].deleted

---------------------------------------------------------------------
\* C12: if generating the initial assistant response fails, the document
\* ends the run with status 'error' and errorMessage 'Failed to generate
\* initial response, please try again.', and is not left in 'review'.
C12_InitialResponseFailureEndsInError ==
  \A r \in DOMAIN run :
    (run[r].failure = "generateText throws" /\ run[r].pc = "done") =>
      /\ document[run[r].documentId].status = "error"
      /\ document[run[r].documentId].errorMessage =
           JsString("Failed to generate initial response, please try again.")

---------------------------------------------------------------------
\* C13: updateDocumentData never deletes a placeholder and keeps the
\* existing ones in their order: the labels of document.data before the call
\* are a prefix of the labels after it, the new labels follow in the order
\* of their first occurrence in the argument, and an existing entry whose
\* label is not in the argument is left as it was.
FirstIndexOfLabel(data, label) ==
  CHOOSE i \in DOMAIN data :
    /\ data[i].label = label
    /\ \A j \in DOMAIN data : data[j].label = label => i <= j

C13_Merged(before, data, after) ==
  LET appended == SubSeq(after, Len(before) + 1, Len(after))
  IN  /\ Len(after) >= Len(before)
      /\ \A i \in DOMAIN before : after[i].label = before[i].label
      /\ { appended[i].label : i \in DOMAIN appended }
           = { data[i].label : i \in DOMAIN data }
               \ { before[i].label : i \in DOMAIN before }
      /\ \A i, j \in DOMAIN appended :
           i < j => FirstIndexOfLabel(data, appended[i].label)
                      < FirstIndexOfLabel(data, appended[j].label)
      /\ \A i \in DOMAIN before :
           (\A j \in DOMAIN data : data[j].label # before[i].label)
             => after[i] = before[i]

C13_MergeKeepsPlaceholders ==
  (last.op = "updateDocumentData" /\ last.result # <<>>) =>
    C13_Merged(last.before.data, last.result, document[last.id].data)

\* An existing entry the argument does not name is kept as it was and the
\* new label of the argument is appended behind it.
C13_Witness ==
  /\ last.op = "updateDocumentData"
  /\ Len(last.before.data) = 1
  /\ Len(last.result) = 1
  /\ last.result[1].label # last.before.data[1].label
  /\ Len(document[last.id].data) = 2
  /\ document[last.id].data[1] = last.before.data[1]
  /\ document[last.id].data[2] = last.result[1]

---------------------------------------------------------------------
\* C14: when two generateResponse runs of one document overlap and each
\* saves the answer to its own field with all fields as read through
\* getDocument, the value saved by one run is still in document.data after
\* the update of the other: no saved value is lost.
Saved(r) ==
  \E i \in DOMAIN document[run[r].documentId].data :
    /\ document[run[r].documentId].data[i].label = run[r].label
    /\ document[run[r].documentId].data[i].value = JsString(run[r].value)

C14_NoSavedValueLost ==
  \A r1, r2 \in RunsOf("generateResponse") :
    ( /\ run[r1].documentId = run[r2].documentId
      /\ run[r1].label # run[r2].label
      /\ run[r1].pc \in {"saveMessage", "done"}
      /\ run[r2].pc \in {"saveMessage", "done"} )
    => Saved(r1) /\ Saved(r2)

---------------------------------------------------------------------
\* C15: a call with non-empty data on a document in 'review' sets the
\* status to 'completed' exactly when every field of the merged data has a
\* non-blank value; on a document in 'completed' it sets the status back to
\* 'review' exactly when some field of the merged data is missing or blank;
\* in any other status the call leaves the status as it is.
NonBlank(value) == value.t = "string" /\ trim(value.v) # ""

EveryFieldNonBlank(data) == \A i \in DOMAIN data : NonBlank(data[i].value)

C15_StatusFollowsMergedData ==
  (last.op = "updateDocumentData" /\ last.result # <<>>) =>
    LET before == last.before.status
        after == document[last.id].status
        filled == EveryFieldNonBlank(document[last.id].data)
    IN  /\ before = "review" =>
             after = (IF filled THEN "completed" ELSE "review")
        /\ before = "completed" =>
             after = (IF filled THEN "completed" ELSE "review")
        /\ before \notin {"review", "completed"} => after = before

\* A completed document goes back to review when a call leaves a field
\* without a value.
C15_Witness ==
  /\ last.op = "updateDocumentData"
  /\ last.result # <<>>
  /\ last.before.status = "completed"
  /\ document[last.id].status = "review"
  /\ ~EveryFieldNonBlank(document[last.id].data)

---------------------------------------------------------------------
\* C19: updateDocumentData called with missing or empty data on an existing
\* document performs no write at all: data, status and every other field of
\* the document are as they were.
C19_EmptyDataWritesNothing ==
  (last.op = "updateDocumentData" /\ last.result = <<>>) =>
    document[last.id] = last.before

\* The call came for a document that has data, and nothing was written.
C19_Witness ==
  /\ last.op = "updateDocumentData"
  /\ last.result = <<>>
  /\ document[last.id].hasData
  /\ document[last.id].data # <<>>
  /\ \E d \in DOMAIN document : ~document[d].hasData

---------------------------------------------------------------------
\* C16: the thread is created and its id stored on the document before any
\* result of the extraction is written: a document in status 'review',
\* 'completed' or 'error' has a threadId, and a document never has data
\* written by the parser while its threadId is unset.
C16_ThreadStoredBeforeResults ==
  /\ \A d \in DOMAIN document :
       document[d].status \in {"review", "completed", "error"}
         => document[d].threadId # 0
  /\ \A r \in RunsOf("extractFieldsFromDocument") :
       run[r].wroteData => document[run[r].documentId].threadId # 0

\* A run has written its fields and the document is in review with the
\* thread a run stored on it.
C16_Witness ==
  \E r \in RunsOf("extractFieldsFromDocument") :
    /\ run[r].wroteData
    /\ document[run[r].documentId].hasData
    /\ document[run[r].documentId].status = "review"
    /\ document[run[r].documentId].threadId \in DOMAIN thread

---------------------------------------------------------------------
\* C17: retryDocumentParsing called by the uploader of an existing document
\* sets its status to 'uploaded', clears its errorMessage and schedules
\* exactly one extractFieldsFromDocument run for that document; data, title,
\* companyId and originalFileId are as they were.
ByUploader ==
  /\ last.id \in DOMAIN last.before.document
  /\ ~last.before.document[last.id].deleted
  /\ last.before.document[last.id].uploadedById = last.userId

C17_RetryResetsAndSchedulesOnce ==
  (last.op = "retryDocumentParsing" /\ ByUploader) =>
    LET before == last.before.document[last.id]
        after == document[last.id]
    IN  /\ after.status = "uploaded"
        /\ after.errorMessage = JsUndefined
        /\ after.data = before.data
        /\ after.title = before.title
        /\ after.companyId = before.companyId
        /\ after.originalFileId = before.originalFileId
        /\ Len(run) = Len(last.before.run) + 1
        /\ SubSeq(run, 1, Len(last.before.run)) = last.before.run
        /\ run[Len(run)].action = "extractFieldsFromDocument"
        /\ run[Len(run)].documentId = last.id
        /\ run[Len(run)].pc = "scheduled"

\* The uploader retried a document that was in error with a message and
\* with data.
C17_Witness ==
  /\ last.op = "retryDocumentParsing"
  /\ ByUploader
  /\ last.before.document[last.id].status = "error"
  /\ last.before.document[last.id].errorMessage # JsUndefined
  /\ last.before.document[last.id].data # <<>>
  /\ document[last.id].status = "uploaded"

---------------------------------------------------------------------
\* C18: when editDocumentTitle, retryDocumentParsing, getDocumentDownloadUrl
\* or getGeneratedFileDownloadUrl is called by a signed-in user who is not
\* the uploader of the document, the call fails with 'Unauthorized', the
\* document is unchanged, no URL is returned and nothing is scheduled; when
\* the document does not exist the call fails with 'Document not found'.
OwnerOnly ==
  { "editDocumentTitle", "retryDocumentParsing", "getDocumentDownloadUrl",
    "getGeneratedFileDownloadUrl" }

C18_OwnershipVerifiedFirst ==
  last.op \in OwnerOnly =>
    LET missing == \/ last.id \notin DOMAIN last.before.document
                   \/ last.before.document[last.id].deleted
    IN  /\ missing => last.result = [error |-> "Document not found"]
        /\ (~missing /\ ~ByUploader) =>
              last.result = [error |-> "Unauthorized"]
        /\ (missing \/ ~ByUploader) =>
              /\ document = last.before.document
              /\ run = last.before.run

\* Another user asked for the generated file of a document that has one in
\* storage, and was refused.
C18_Witness ==
  /\ last.op = "getGeneratedFileDownloadUrl"
  /\ last.userId = "user2"
  /\ document[last.id].uploadedById = "user1"
  /\ ~document[last.id].deleted
  /\ document[last.id].generatedFileId # 0
  /\ Stored(document[last.id].generatedFileId)
  /\ last.result = [error |-> "Unauthorized"]

---------------------------------------------------------------------
\* C20: every field returned by enrichFieldsWithDocumentContext that has a
\* non-empty placeholderPattern has a pattern that occurs verbatim in the
\* raw text of the document, whether the model supplied it or it was
\* derived from the label; the returned fields have the count, order and
\* labels of the input and a value that defaults to the empty string.
JustEnriched(r) ==
  /\ run[r].action = "extractFieldsFromDocument"
  /\ \/ run[r].pc = "internalAggregateCompanyDataFromDocuments"
     \/ run[r].pc = "updateDocumentData" /\ run[r].companyId = 0

C20_Enriched(rawText, fields, enriched) ==
  /\ Len(enriched) = Len(fields)
  /\ \A i \in DOMAIN fields :
       /\ enriched[i].label = fields[i].label
       /\ enriched[i].value =
            (IF fields[i].value = JsUndefined THEN JsString("")
                                              ELSE fields[i].value)
       /\ ( /\ enriched[i].placeholderPattern.t = "string"
            /\ enriched[i].placeholderPattern.v # "" )
          => includes(rawText, enriched[i].placeholderPattern.v)

C20_PatternsOccurVerbatim ==
  \A r \in DOMAIN run :
    JustEnriched(r) =>
      C20_Enriched(run[r].rawText, run[r].object.data, run[r].enrichedData)

---------------------------------------------------------------------
\* C23: there is one canonical key space: normalizeIdentifier and
\* normalizeCompanyDataKey return the same key for every string for which
\* normalizeCompanyDataKey returns a key, so the fields a run looks up for
\* auto-fill have the key their label is aggregated under.
SameKey(input) ==
  normalizeCompanyDataKey(input) # null =>
    normalizeIdentifier(input) = normalizeCompanyDataKey(input)

C23_SingleCanonicalKeySpace ==
  \A r \in DOMAIN run :
    ( /\ run[r].action = "extractFieldsFromDocument"
      /\ run[r].companyId # 0
      /\ run[r].pc = "updateDocumentData" )
    => \A i \in DOMAIN run[r].enrichedData :
         SameKey(run[r].enrichedData[i].label)

---------------------------------------------------------------------
\* C21: searchCompanies returns at most 10 companies, each with a score
\* strictly greater than 0.3, in order of non-increasing score, where the
\* score is 1 when the lower-cased trimmed name equals the lower-cased
\* trimmed search term, 0.8 when one of the two contains the other, and
\* otherwise the number of positions at which the two agree divided by the
\* length of the longer one; a company whose name matches exactly is never
\* ranked after one whose name does not.
C21_Name(c) == trim(toLowerCase(company[c].name))

C21_Term == trim(toLowerCase(probe.args))

C21_Exact(c) == C21_Name(c) = C21_Term

C21_Score(c) ==
  LET name == C21_Name(c)
      agree == { i \in 1..Len(name) :
                   i <= Len(C21_Term) /\ Chr(name, i) = Chr(C21_Term, i) }
      longer == IF Len(name) > Len(C21_Term) THEN Len(name) ELSE Len(C21_Term)
  IN  IF C21_Exact(c) THEN <<1, 1>>
      ELSE IF includes(name, C21_Term) \/ includes(C21_Term, name)
        THEN <<8, 10>>
      ELSE <<Cardinality(agree), longer>>

C21_AtLeast(a, b) == a[1] * b[2] >= b[1] * a[2]

C21_SortedByRelevance ==
  (probe.fn = "searchCompanies" /\ probe.done) =>
    /\ Len(probe.out) <= 10
    /\ \A i \in DOMAIN probe.out :
         /\ probe.out[i] \in DOMAIN company
         /\ ~C21_AtLeast(<<3, 10>>, C21_Score(probe.out[i]))
    /\ \A i, j \in DOMAIN probe.out :
         i < j =>
           /\ probe.out[i] # probe.out[j]
           /\ C21_AtLeast(C21_Score(probe.out[i]), C21_Score(probe.out[j]))
           /\ C21_Exact(probe.out[j]) => C21_Exact(probe.out[i])

\* More than ten companies match, some exactly and some not, and ten are
\* returned: exact ones first.
C21_Witness ==
  /\ probe.fn = "searchCompanies"
  /\ probe.done
  /\ Len(company) > 10
  /\ Len(probe.out) = 10
  /\ C21_Exact(probe.out[1])
  /\ ~C21_Exact(probe.out[10])
  /\ ~C21_Exact(1)

---------------------------------------------------------------------
\* C22: handleSubmit uploads the pending files one after the other in list
\* order; a failure marks only that file 'error' and the files after it are
\* still uploaded; when handleSubmit finishes, every file that was pending
\* at submit is 'success' or 'error', and uploadStatus is 'success' exactly
\* when every file in the list is 'success' and 'error' otherwise.
C22_Finished(submit) ==
  LET files == submit.finished[1].files
      uploadStatus == submit.finished[1].uploadStatus
      InSeq(file, seq) == \E k \in DOMAIN seq : seq[k] = file
  IN  /\ \A k \in DOMAIN submit.pendingFiles :
           InSeq(submit.pendingFiles[k], submit.uploaded)
             # InSeq(submit.pendingFiles[k], submit.failed)
      /\ \A k \in DOMAIN files :
           /\ InSeq(files[k].file, submit.failed) => files[k].status = "error"
           /\ InSeq(files[k].file, submit.uploaded)
                => files[k].status = "success"
      /\ uploadStatus =
           (IF \A k \in DOMAIN files : files[k].status = "success"
              THEN "success" ELSE "error")

====
